---- MODULE Spec2Model ----
(***************************************************************************)
(* Stream API (ETSI GS QKD 004) simulated engines of the QKD ETSI API C    *)
(* wrapper.  Two implementations of the simulated backend are in the       *)
(* repository and both are modelled:                                       *)
(*   Legacy  - src/simulated.c            (session table with TTL closure) *)
(*   Etsi004 - src/etsi004/backends/simulated.c (the one CMake builds)     *)
(* The variable `backend` says which of them is registered as the active   *)
(* backend of the process; it never changes (no runtime swapping).         *)
(*   Spec        - a caller driving the Legacy engine                      *)
(*   SpecEtsi004 - a caller driving the Etsi004 engine                     *)
(*   SpecKeys    - the Legacy engine, key deliveries being recorded        *)
(***************************************************************************)
EXTENDS Integers, Naturals, Sequences, FiniteSets, TLC

\* ---------------------------------------------------------------- bounds
\* number of slots of the session table explored (MAX_STREAMS is 16 in the
\* source; every operation is a linear scan that is uniform in the size)
MaxStreams == 2
\* the clock advances in steps of TickMs milliseconds, MaxTicks times
TickMs == 1000
MaxTicks == 1
\* largest key index a caller asks for
MaxIndex == 1

\* ------------------------------------------------------ program constants
QKD_KSID_SIZE == 16
QKD_STATUS_SUCCESS == 0
QKD_STATUS_PEER_DISCONNECTED == 1
QKD_STATUS_INSUFFICIENT_KEY == 2
QKD_STATUS_PEER_NOT_CONNECTED_GET_KEY == 3
QKD_STATUS_NO_CONNECTION == 4
QKD_STATUS_KSID_IN_USE == 5
QKD_STATUS_TIMEOUT == 6
QKD_STATUS_QOS_NOT_MET == 7
QKD_STATUS_METADATA_SIZE_ERROR == 8
\* sizeof(uint32_t) * 2 : age and hops
needed_size == 8
\* generate_metadata() refuses buffers shorter than this
MetaJsonMin == 50

Legacy == "src/simulated.c"
Etsi004 == "src/etsi004/backends/simulated.c"

\* --------------------------------------------------------------- KSIDs
ZeroKsid == [i \in 1..QKD_KSID_SIZE |-> 0]
test_key_uuid == <<161, 178, 195, 212, 229, 246, 71, 88,
                   89, 106, 123, 140, 157, 174, 191, 192>>
\* a KSID chosen by a peer: non-zero first byte, not the built-in UUID
PeerKsid == [i \in 1..QKD_KSID_SIZE |-> IF i = 1 THEN 1 ELSE 0]
\* a non-zero KSID whose first byte is zero
LeadZeroKsid == [i \in 1..QKD_KSID_SIZE |-> IF i = 2 THEN 7 ELSE 0]
KsidInputs == {ZeroKsid, test_key_uuid, PeerKsid, LeadZeroKsid}
\* KSIDs presented to GET_KEY and CLOSE
LookupKsids == {ZeroKsid, test_key_uuid, PeerKsid}

\* ----------------------------------------------------------------- QoS
\* the QoS of tests/etsi004/api_test.c and its invalid variant
test_qos == [Key_chunk_size |-> 32, Max_bps |-> 1000, Min_bps |-> 100,
             Jitter |-> 10, Priority |-> 1, Timeout |-> 1000, TTL |-> 1]
invalid_qos == [test_qos EXCEPT !.Min_bps = 2000]
ZeroQos == [Key_chunk_size |-> 0, Max_bps |-> 0, Min_bps |-> 0,
            Jitter |-> 0, Priority |-> 0, Timeout |-> 0, TTL |-> 0]
QosInputs == {test_qos, invalid_qos}

\* metadata capacities a caller passes (0: no metadata requested)
MetaSizes == {0, 4, 64}
ArgKinds == {"valid", "null_arg", "null_status"}

\* -------------------------------------------------------------- state
VARIABLES
    backend,        \* which simulated engine is the active backend
    streams,        \* static struct stream_state streams[MAX_STREAMS]
    now,            \* CLOCK_MONOTONIC in milliseconds
    faulted,        \* the process dereferenced a NULL pointer
    call,           \* the last call made: operation and arguments
    ret,            \* value returned by the last call
    status,         \* *status after the last call
    key_stream_id,  \* the caller's KSID buffer after the last call
    key_buffer,     \* the caller's key buffer after the last call
    metadata,       \* the caller's metadata record after the last call
    seen,           \* one key delivery remembered from the past
    py_qkd_client_instance,  \* the Python client object exists
    key_store,      \* Vault simulation: key_store[0 .. stored_key_count-1]
    container,      \* the caller's qkd_key_container_t after the last call
    kme_status,     \* the caller's qkd_status_t after the last call
    QKD_DEBUG_LEVEL, \* debug verbosity the library was compiled with
    environ,        \* the process environment: the six QKD_*_PATH variables
    request_sent,   \* the HTTPS request made by the last call, if any
    retrieved,      \* one GET_KEY_WITH_IDS delivery remembered from the past
    client,         \* the QKDClient object of the embedded Python source
    callers         \* threads inside sim_open_connect, and where each is

vars == <<backend, streams, now, faulted, call, ret, status,
          key_stream_id, key_buffer, metadata, seen,
          py_qkd_client_instance, key_store, container, kme_status,
          QKD_DEBUG_LEVEL, environ, request_sent, retrieved, client,
          callers>>
\* the Vault side of the library and its build configuration
vault == <<key_store, container, kme_status, QKD_DEBUG_LEVEL, environ,
           request_sent, retrieved, client, callers>>
\* the state outside the Stream session engines
rest == <<py_qkd_client_instance, vault>>
rest_but_callers == <<py_qkd_client_instance, key_store, container,
                      kme_status, QKD_DEBUG_LEVEL, environ, request_sent,
                      retrieved, client>>

Slots == 0..(MaxStreams - 1)
Unset == -1
Unwritten == "unwritten"
NoCall == [op |-> "none", args |-> "valid", ksid |-> ZeroKsid,
           qos |-> ZeroQos, index |-> 0, meta |-> 0]
NoMeta == [Metadata_size |-> 0, Metadata_buffer |-> Unwritten]
\* no delivery remembered: deliveries are not recorded (NoSeen) or none has
\* been recorded yet (NoneSeen)
NoSeen == [recording |-> FALSE, index |-> Unset, key |-> Unwritten,
           is_initiator |-> FALSE]
NoneSeen == [recording |-> TRUE, index |-> Unset, key |-> Unwritten,
             is_initiator |-> FALSE]

\* getenv gives NULL for each of the six variables; no request was made
NoTriple == [cert_path |-> "NULL", key_path |-> "NULL",
             ca_cert_path |-> "NULL"]
NoEnviron == [MASTER |-> NoTriple, SLAVE |-> NoTriple]
NoRequest == [url |-> "none"]
\* no QKDClient object has been made
NoClient == [made |-> FALSE]
\* one thread at a time uses the library
NoCallers == <<>>
\* no retrieval remembered: retrievals are not recorded (NoRetrieved) or
\* none has been recorded yet (NoneRetrieved)
NoRetrieved == [recording |-> FALSE, key_ID |-> <<"none">>,
                key |-> <<"none">>]
NoneRetrieved == [recording |-> TRUE, key_ID |-> <<"none">>,
                  key |-> <<"none">>]

\* qkd_key_container_t container = {0}
NoContainer == [key_count |-> 0, keys |-> <<>>]
\* qkd_status_t status = {0}
NoStatus == [stored_key_count |-> 0, max_key_count |-> 0]

\* memset(&streams[slot], 0, sizeof(struct stream_state))
ZeroStream == [key_id |-> ZeroKsid, qos |-> ZeroQos, in_use |-> FALSE,
               is_initiator |-> FALSE, last_index |-> 0,
               creation_time |-> 0, pending_close |-> FALSE, num_keys |-> 0]

\* ------------------------------------------------------------ helpers
Min(S) == CHOOSE x \in S : \A y \in S : x <= y

find_stream(tbl, key_id) ==
    LET hit == {i \in Slots : tbl[i].in_use /\ tbl[i].key_id = key_id}
    IN IF hit = {} THEN -1 ELSE Min(hit)

\* an allocate_stream that hands out the first slot, in use or not
allocate_stream_first(tbl) == Min(Slots)

allocate_stream(tbl) ==
    LET free == {i \in Slots : ~tbl[i].in_use}
    IN IF free = {} THEN -1 ELSE Min(free)

\* the fixed test_key of the file is delivered whatever the index
generate_key_fixed(index) ==
    "8f40c5adb68f25624ae5b214ea767a6ec94d829d3d7b5e1ad1ba6f3e2138285f"

\* SHA-256 of the four bytes of the index (little-endian), in hex
generate_key(index) ==
    CASE index = 0 -> "df3f619804a92fdb4057192dc43dd748ea778adc52bc498ce80524c014b81119"
      [] index = 1 -> "67abdd721024f0ff4e0b3f4c2fc13bc5bad42d0b7851d456d88d203d15aaa450"
      [] index = 2 -> "26b25d457597a7b0463f9620f666dd10aa2c4373a505967c7c8d70922a2d6ece"
      [] index = 3 -> "9d9f290527a6be626a8f5985b26e19b237b44872b03631811df4416fc1713178"
      [] index = 4 -> "fb5e512425fc9449316ec95969ebe71e2d576dbab833d61e2a5b9330fd70ee02"
      [] index = 5 -> "2594b6a92ebfb1c3312deb7d01c015fb95e9fbe9bd7bc6b527af07813ec7b910"

\* 8000 * stream->qos.Key_chunk_size, a 32-bit unsigned product; the chunk
\* sizes of QosInputs keep it far below 2^32, where it does not wrap
divisor(stream) == 8000 * stream.qos.Key_chunk_size

\* (elapsed_ms * stream->qos.Max_bps) / (8000 * stream->qos.Key_chunk_size)
max_possible_keys(stream, t) ==
    ((t - stream.creation_time) * stream.qos.Max_bps) \div divisor(stream)

can_generate_key(stream, requested_index, t) ==
    requested_index < max_possible_keys(stream, t)

\* (current_time - creation_time) / 1000
elapsed_seconds(stream, t) == (t - stream.creation_time) \div 1000


\* ------------------------------------------------------------ Init
Init ==
    /\ backend = Legacy
    /\ streams = [i \in Slots |-> ZeroStream]
    /\ now = 0
    /\ faulted = FALSE
    /\ call = NoCall
    /\ ret = Unset
    /\ status = Unset
    /\ key_stream_id = ZeroKsid
    /\ key_buffer = Unwritten
    /\ metadata = NoMeta
    /\ seen = NoSeen
    /\ py_qkd_client_instance = FALSE
    /\ key_store = <<>>
    /\ container = NoContainer
    /\ kme_status = NoStatus
    /\ QKD_DEBUG_LEVEL = 0
    /\ environ = NoEnviron
    /\ request_sent = NoRequest
    /\ retrieved = NoRetrieved
    /\ client = NoClient
    /\ callers = NoCallers

\* the caller is between two calls: the previous call has returned and its
\* results have been consumed, and the process has not faulted
Idle == call.op = "none" /\ ~faulted

\* `*status = ...` through a NULL status pointer: the process faults
Fault(c) ==
    /\ faulted' = TRUE
    /\ call' = c
    /\ ret' = Unset
    /\ status' = Unset
    /\ key_stream_id' = c.ksid
    /\ key_buffer' = Unwritten
    /\ metadata' = [NoMeta EXCEPT !.Metadata_size = c.meta]
    /\ UNCHANGED <<rest, backend, streams, now, seen>>

\* `*status = QKD_STATUS_NO_CONNECTION` with status == NULL is undefined: the
\* store traps, or it has no visible effect and the function returns
NullStatus(c) ==
    \/ Fault(c)
    \/ /\ call' = c
       /\ ret' = QKD_STATUS_NO_CONNECTION
       /\ status' = Unset
       /\ key_stream_id' = c.ksid
       /\ key_buffer' = Unwritten
       /\ metadata' = [NoMeta EXCEPT !.Metadata_size = c.meta]
       /\ UNCHANGED <<rest, backend, streams, now, faulted, seen>>

\* a call that returns code r, writes it to *status and touches nothing else
Reject(c, r) ==
    /\ call' = c
    /\ ret' = r
    /\ status' = r
    /\ key_stream_id' = c.ksid
    /\ key_buffer' = Unwritten
    /\ metadata' = [NoMeta EXCEPT !.Metadata_size = c.meta]
    /\ UNCHANGED <<rest, backend, streams, now, faulted, seen>>

\* the remembered delivery is kept or replaced by the one just made
Remember(index, key, stream) ==
    seen' \in IF seen.recording
              THEN {seen, [recording |-> TRUE, index |-> index, key |-> key,
                           is_initiator |-> stream.is_initiator]}
              ELSE {seen}

\* ------------------------------------------- Legacy: src/simulated.c
\* a sim_open_connect that enforces the Timeout of the QoS: a request whose
\* Timeout is shorter than one clock period is answered TIMEOUT
sim_open_connect_outcome_timed(tbl, qos, ksid, t) ==
    LET is_initiator == (ksid[1] = 0)
        found == find_stream(tbl, ksid)
        slot == allocate_stream(tbl)
        r == IF is_initiator THEN QKD_STATUS_PEER_DISCONNECTED
                             ELSE QKD_STATUS_SUCCESS
    IN
    IF qos.Timeout < TickMs
    THEN [ret |-> QKD_STATUS_TIMEOUT, key_stream_id |-> ksid,
          streams |-> tbl]
    ELSE IF ~is_initiator /\ found >= 0
    THEN [ret |-> QKD_STATUS_KSID_IN_USE, key_stream_id |-> ksid,
          streams |-> tbl]
    ELSE IF slot < 0
    THEN [ret |-> QKD_STATUS_NO_CONNECTION, key_stream_id |-> ksid,
          streams |-> tbl]
    ELSE [ret |-> IF qos.Min_bps > qos.Max_bps
                  THEN QKD_STATUS_QOS_NOT_MET ELSE r,
          key_stream_id |-> IF is_initiator THEN test_key_uuid ELSE ksid,
          streams |-> [tbl EXCEPT ![slot] =
                [@ EXCEPT !.key_id = IF is_initiator THEN test_key_uuid
                                                     ELSE ksid,
                          !.is_initiator = is_initiator,
                          !.in_use = TRUE,
                          !.last_index = 0,
                          !.creation_time = t,
                          !.num_keys = 0,
                          !.qos = qos]]]

sim_open_connect_outcome(tbl, qos, ksid, t) ==
    \* what sim_open_connect returns, writes to the caller's KSID buffer and
    \* makes of the table tbl at time t, for valid arguments
    LET is_initiator == (ksid[1] = 0)
        found == find_stream(tbl, ksid)
        slot == allocate_stream(tbl)
        r == IF is_initiator THEN QKD_STATUS_PEER_DISCONNECTED
                             ELSE QKD_STATUS_SUCCESS
    IN
    IF ~is_initiator /\ found >= 0
    THEN [ret |-> QKD_STATUS_KSID_IN_USE, key_stream_id |-> ksid,
          streams |-> tbl]
    ELSE IF slot < 0
    THEN [ret |-> QKD_STATUS_NO_CONNECTION, key_stream_id |-> ksid,
          streams |-> tbl]
    ELSE [ret |-> IF qos.Min_bps > qos.Max_bps
                  THEN QKD_STATUS_QOS_NOT_MET ELSE r,
          key_stream_id |-> IF is_initiator THEN test_key_uuid ELSE ksid,
          streams |-> [tbl EXCEPT ![slot] =
                [@ EXCEPT !.key_id = IF is_initiator THEN test_key_uuid
                                                     ELSE ksid,
                          !.is_initiator = is_initiator,
                          !.in_use = TRUE,
                          !.last_index = 0,
                          !.creation_time = t,
                          !.num_keys = 0,
                          !.qos = qos]]]

\* a sim_close that, once the TTL has run out, only takes the slot out of
\* use and leaves the rest of it as it was
sim_close_outcome_in_use_only(tbl, ksid, t) ==
    LET slot == find_stream(tbl, ksid) IN
    IF slot < 0
    THEN [ret |-> QKD_STATUS_NO_CONNECTION, streams |-> tbl]
    ELSE [ret |-> QKD_STATUS_SUCCESS,
          streams |-> IF elapsed_seconds(tbl[slot], t) < tbl[slot].qos.TTL
                      THEN [tbl EXCEPT ![slot].pending_close = TRUE]
                      ELSE [tbl EXCEPT ![slot].in_use = FALSE]]

sim_close_outcome(tbl, ksid, t) ==
    \* what sim_close returns and makes of the table tbl at time t, for
    \* valid arguments
    LET slot == find_stream(tbl, ksid) IN
    IF slot < 0
    THEN [ret |-> QKD_STATUS_NO_CONNECTION, streams |-> tbl]
    ELSE [ret |-> QKD_STATUS_SUCCESS,
          streams |-> IF elapsed_seconds(tbl[slot], t) < tbl[slot].qos.TTL
                      THEN [tbl EXCEPT ![slot].pending_close = TRUE]
                      ELSE [tbl EXCEPT ![slot] = ZeroStream]]

sim_open_connect(args, qos, ksid) ==
    LET c == [op |-> "open_connect", args |-> args, ksid |-> ksid,
              qos |-> qos, index |-> 0, meta |-> 0]
        o == sim_open_connect_outcome(streams, qos, ksid, now)
    IN
    /\ backend = Legacy
    /\ Idle
    /\ IF args = "null_status" THEN NullStatus(c)
       ELSE IF args = "null_arg" THEN Reject(c, QKD_STATUS_NO_CONNECTION)
       ELSE IF o.streams = streams THEN Reject(c, o.ret)
       ELSE
         /\ streams' = o.streams
         /\ key_stream_id' = o.key_stream_id
         /\ ret' = o.ret
         /\ status' = o.ret
         /\ call' = c
         /\ key_buffer' = Unwritten
         /\ metadata' = NoMeta
         /\ UNCHANGED <<rest, backend, now, faulted, seen>>

\* a sim_get_key whose key material is derived per role: the responder's
\* digest is taken over a shifted index
sim_get_key_outcome_by_role(tbl, ksid, index, meta, t) ==
    LET slot == find_stream(tbl, ksid) IN
    IF slot < 0
    THEN [ret |-> QKD_STATUS_NO_CONNECTION, key_buffer |-> Unwritten]
    ELSE IF ~can_generate_key(tbl[slot], index, t)
    THEN [ret |-> QKD_STATUS_INSUFFICIENT_KEY, key_buffer |-> Unwritten]
    ELSE [ret |-> IF meta > 0 /\ meta < needed_size
                  THEN QKD_STATUS_METADATA_SIZE_ERROR
                  ELSE QKD_STATUS_SUCCESS,
          key_buffer |-> IF tbl[slot].is_initiator
                         THEN generate_key(index)
                         ELSE generate_key(index + 3)]

sim_get_key_outcome(tbl, ksid, index, meta, t) ==
    \* what sim_get_key returns and writes to the key buffer for valid
    \* arguments on table tbl at time t (the QoS divisor of the session is
    \* not zero)
    LET slot == find_stream(tbl, ksid) IN
    IF slot < 0
    THEN [ret |-> QKD_STATUS_NO_CONNECTION, key_buffer |-> Unwritten]
    ELSE IF ~can_generate_key(tbl[slot], index, t)
    THEN [ret |-> QKD_STATUS_INSUFFICIENT_KEY, key_buffer |-> Unwritten]
    ELSE [ret |-> IF meta > 0 /\ meta < needed_size
                  THEN QKD_STATUS_METADATA_SIZE_ERROR
                  ELSE QKD_STATUS_SUCCESS,
          key_buffer |-> generate_key(index)]

sim_get_key(args, ksid, index, meta) ==
    LET c == [op |-> "get_key", args |-> args, ksid |-> ksid,
              qos |-> ZeroQos, index |-> index, meta |-> meta]
        slot == find_stream(streams, ksid)
        stream == streams[slot]
        o == sim_get_key_outcome(streams, ksid, index, meta, now)
    IN
    /\ backend = Legacy
    /\ Idle
    /\ IF args = "null_status" THEN NullStatus(c)
       ELSE IF args = "null_arg" THEN Reject(c, QKD_STATUS_NO_CONNECTION)
       ELSE IF slot >= 0 /\ divisor(stream) = 0 THEN Fault(c)
       ELSE IF o.key_buffer = Unwritten THEN Reject(c, o.ret)
       ELSE
         /\ key_buffer' = o.key_buffer
         /\ streams' = [streams EXCEPT ![slot].last_index = index]
         /\ Remember(index, key_buffer', stream)
         /\ metadata' =
               IF meta > 0 /\ meta < needed_size
               THEN [Metadata_size |-> needed_size,
                     Metadata_buffer |-> Unwritten]
               ELSE IF meta > 0
               THEN [Metadata_size |-> needed_size,
                     Metadata_buffer |-> <<now - stream.creation_time, 0>>]
               ELSE NoMeta
         /\ ret' = o.ret
         /\ status' = o.ret
         /\ call' = c
         /\ key_stream_id' = ksid
         /\ UNCHANGED <<rest, backend, now, faulted>>

sim_close(args, ksid) ==
    LET c == [op |-> "close", args |-> args, ksid |-> ksid,
              qos |-> ZeroQos, index |-> 0, meta |-> 0]
        o == sim_close_outcome(streams, ksid, now)
    IN
    /\ backend = Legacy
    /\ Idle
    /\ IF args = "null_status" THEN NullStatus(c)
       ELSE IF args = "null_arg" THEN Reject(c, QKD_STATUS_NO_CONNECTION)
       ELSE IF o.ret # QKD_STATUS_SUCCESS THEN Reject(c, o.ret)
       ELSE
         /\ streams' = o.streams
         /\ ret' = o.ret
         /\ status' = o.ret
         /\ call' = c
         /\ key_stream_id' = ksid
         /\ key_buffer' = Unwritten
         /\ metadata' = NoMeta
         /\ UNCHANGED <<rest, backend, now, faulted, seen>>

\* ------------------- Etsi004: src/etsi004/backends/simulated.c
\* number of decimal digits of n, as printed by %lu
Digits(n) == IF n < 10 THEN 1 ELSE IF n < 100 THEN 2 ELSE IF n < 1000 THEN 3
             ELSE IF n < 10000 THEN 4 ELSE 5

\* snprintf(buffer, size, "{\"age\": %lu, \"hops\": 0}", current_time)
generate_metadata(meta, t) ==
    IF meta < MetaJsonMin
    THEN [Metadata_size |-> meta, Metadata_buffer |-> Unwritten]
    ELSE [Metadata_size |-> 20 + Digits(t),
          Metadata_buffer |-> [age |-> t, hops |-> 0]]

etsi004_sim_open_connect(args, qos, ksid) ==
    LET c == [op |-> "open_connect", args |-> args, ksid |-> ksid,
              qos |-> qos, index |-> 0, meta |-> 0]
        is_initiator == (ksid[1] = 0)
        id == IF is_initiator THEN test_key_uuid ELSE ksid
        stream_idx == allocate_stream(streams)
    IN
    /\ backend = Etsi004
    /\ Idle
    /\ IF args = "null_status" THEN NullStatus(c)
       ELSE IF args = "null_arg" THEN Reject(c, QKD_STATUS_NO_CONNECTION)
       ELSE IF stream_idx < 0
            THEN Reject([c EXCEPT !.ksid = id], QKD_STATUS_NO_CONNECTION)
                 /\ call' = c
       ELSE
         /\ streams' = [streams EXCEPT ![stream_idx] =
                [key_id |-> id, qos |-> qos, in_use |-> TRUE,
                 is_initiator |-> is_initiator, last_index |-> 0,
                 creation_time |-> now, pending_close |-> FALSE,
                 num_keys |-> 0]]
         /\ key_stream_id' = id
         /\ ret' = QKD_STATUS_SUCCESS
         /\ status' = QKD_STATUS_SUCCESS
         /\ call' = c
         /\ key_buffer' = Unwritten
         /\ metadata' = NoMeta
         /\ UNCHANGED <<rest, backend, now, faulted, seen>>

\* what the etsi004 sim_get_key returns and writes to the key buffer for
\* valid arguments on table tbl at time t
etsi004_sim_get_key_outcome(tbl, ksid, index, t) ==
    LET stream_idx == find_stream(tbl, ksid) IN
    IF stream_idx < 0
    THEN [ret |-> QKD_STATUS_PEER_NOT_CONNECTED_GET_KEY,
          key_buffer |-> Unwritten]
    ELSE IF ~can_generate_key(tbl[stream_idx], index, t)
    THEN [ret |-> QKD_STATUS_INSUFFICIENT_KEY, key_buffer |-> Unwritten]
    ELSE [ret |-> QKD_STATUS_SUCCESS, key_buffer |-> generate_key(index)]

etsi004_sim_get_key(args, ksid, index, meta) ==
    LET c == [op |-> "get_key", args |-> args, ksid |-> ksid,
              qos |-> ZeroQos, index |-> index, meta |-> meta]
        stream_idx == find_stream(streams, ksid)
        stream == streams[stream_idx]
        o == etsi004_sim_get_key_outcome(streams, ksid, index, now)
    IN
    /\ backend = Etsi004
    /\ Idle
    /\ IF args = "null_status" THEN NullStatus(c)
       ELSE IF args = "null_arg" THEN Reject(c, QKD_STATUS_NO_CONNECTION)
       ELSE IF stream_idx >= 0 /\ divisor(stream) = 0 THEN Fault(c)
       ELSE IF o.key_buffer = Unwritten THEN Reject(c, o.ret)
       ELSE
         /\ key_buffer' = o.key_buffer
         /\ Remember(index, key_buffer', stream)
         /\ metadata' = IF meta > 0 THEN generate_metadata(meta, now)
                                    ELSE NoMeta
         /\ ret' = o.ret
         /\ status' = o.ret
         /\ call' = c
         /\ key_stream_id' = ksid
         /\ UNCHANGED <<rest, backend, streams, now, faulted>>

etsi004_sim_close(args, ksid) ==
    LET c == [op |-> "close", args |-> args, ksid |-> ksid,
              qos |-> ZeroQos, index |-> 0, meta |-> 0]
        stream_idx == find_stream(streams, ksid)
    IN
    /\ backend = Etsi004
    /\ Idle
    /\ IF args = "null_status" THEN NullStatus(c)
       ELSE IF args = "null_arg" THEN Reject(c, QKD_STATUS_NO_CONNECTION)
       ELSE IF stream_idx < 0
            THEN Reject(c, QKD_STATUS_PEER_NOT_CONNECTED_GET_KEY)
       ELSE
         /\ streams' = [streams EXCEPT ![stream_idx].in_use = FALSE]
         /\ ret' = QKD_STATUS_SUCCESS
         /\ status' = QKD_STATUS_SUCCESS
         /\ call' = c
         /\ key_stream_id' = ksid
         /\ key_buffer' = Unwritten
         /\ metadata' = NoMeta
         /\ UNCHANGED <<rest, backend, now, faulted, seen>>

\* ------------------------------------------------------------ the clock
Tick ==
    /\ Idle
    /\ now + TickMs <= MaxTicks * TickMs
    /\ now' = now + TickMs
    /\ UNCHANGED <<rest, backend, streams, faulted, call, ret, status,
                   key_stream_id, key_buffer, metadata, seen>>


\* the caller has looked at the results of the call and goes on; the buffers
\* it passes to the next call are fresh
Return ==
    /\ call.op # "none"
    /\ ~faulted
    /\ call' = NoCall
    /\ ret' = Unset
    /\ status' = Unset
    /\ key_stream_id' = ZeroKsid
    /\ key_buffer' = Unwritten
    /\ metadata' = NoMeta
    /\ UNCHANGED <<rest, backend, streams, now, faulted, seen>>

\* calls with a missing argument are made with fixed other arguments
OpenArgs == {<<a, q, k>> \in ArgKinds \X QosInputs \X KsidInputs :
                a = "valid" \/ (q = test_qos /\ k = ZeroKsid)}
GetKeyArgs == {<<a, k, i, m>> \in
                   ArgKinds \X LookupKsids \X (0..MaxIndex) \X MetaSizes :
                a = "valid" \/ (k = test_key_uuid /\ i = 0 /\ m = 0)}
CloseArgs == {<<a, k>> \in ArgKinds \X LookupKsids :
                a = "valid" \/ k = test_key_uuid}

OpenConnect == \E x \in OpenArgs : sim_open_connect(x[1], x[2], x[3])
GetKey == \E x \in GetKeyArgs : sim_get_key(x[1], x[2], x[3], x[4])
Close == \E x \in CloseArgs : sim_close(x[1], x[2])
Etsi004OpenConnect ==
    \E x \in OpenArgs : etsi004_sim_open_connect(x[1], x[2], x[3])
Etsi004GetKey ==
    \E x \in GetKeyArgs : etsi004_sim_get_key(x[1], x[2], x[3], x[4])
Etsi004Close == \E x \in CloseArgs : etsi004_sim_close(x[1], x[2])

Next ==
    \/ OpenConnect
    \/ GetKey
    \/ Close
    \/ Return
    \/ Tick

Spec == Init /\ [][Next]_vars

\* ------------------------------------------- the Etsi004 engine driven
InitEtsi004 ==
    /\ backend = Etsi004
    /\ streams = [i \in Slots |-> ZeroStream]
    /\ now = 0
    /\ faulted = FALSE
    /\ call = NoCall
    /\ ret = Unset
    /\ status = Unset
    /\ key_stream_id = ZeroKsid
    /\ key_buffer = Unwritten
    /\ metadata = NoMeta
    /\ seen = NoSeen
    /\ py_qkd_client_instance = FALSE
    /\ key_store = <<>>
    /\ container = NoContainer
    /\ kme_status = NoStatus
    /\ QKD_DEBUG_LEVEL = 0
    /\ environ = NoEnviron
    /\ request_sent = NoRequest
    /\ retrieved = NoRetrieved
    /\ client = NoClient
    /\ callers = NoCallers

NextEtsi004 ==
    \/ Etsi004OpenConnect
    \/ Etsi004GetKey
    \/ Etsi004Close
    \/ Return
    \/ Tick

SpecEtsi004 == InitEtsi004 /\ [][NextEtsi004]_vars

\* ----------------- the Legacy engine with key deliveries being recorded
\* every argument is present, the QoS is valid, no metadata is requested
KeysOpenArgs == {x \in OpenArgs : x[1] = "valid" /\ x[2] = test_qos}
KeysGetKeyArgs == {x \in GetKeyArgs : x[1] = "valid" /\ x[4] = 0}
KeysCloseArgs == {x \in CloseArgs : x[1] = "valid"}

KeysOpenConnect == \E x \in KeysOpenArgs : sim_open_connect(x[1], x[2], x[3])
KeysGetKey == \E x \in KeysGetKeyArgs : sim_get_key(x[1], x[2], x[3], x[4])
KeysClose == \E x \in KeysCloseArgs : sim_close(x[1], x[2])

InitKeys ==
    /\ backend = Legacy
    /\ streams = [i \in Slots |-> ZeroStream]
    /\ now = 0
    /\ faulted = FALSE
    /\ call = NoCall
    /\ ret = Unset
    /\ status = Unset
    /\ key_stream_id = ZeroKsid
    /\ key_buffer = Unwritten
    /\ metadata = NoMeta
    /\ seen = NoneSeen
    /\ py_qkd_client_instance = FALSE
    /\ key_store = <<>>
    /\ container = NoContainer
    /\ kme_status = NoStatus
    /\ QKD_DEBUG_LEVEL = 0
    /\ environ = NoEnviron
    /\ request_sent = NoRequest
    /\ retrieved = NoRetrieved
    /\ client = NoClient
    /\ callers = NoCallers

NextKeys ==
    \/ KeysOpenConnect
    \/ KeysGetKey
    \/ KeysClose
    \/ Return
    \/ Tick

SpecKeys == InitKeys /\ [][NextKeys]_vars

\* ------------- the Python client backend: etsi004/backends/python_client.c
\* what the embedded interpreter and the remote QKD server answer is outside
\* the program: every answer the C code distinguishes is an input
PythonClient == "src/etsi004/backends/python_client.c"
\* status codes of include/etsi004/api.h used by this backend
QKD_STATUS_PEER_NOT_CONNECTED == 1
QKD_STATUS_METADATA_SIZE_INSUFFICIENT == 8
\* strlen of the JSON text python_client_get_key puts in the metadata buffer
json_len == 55
StatusCodes == 0..8
\* answers to open_connect: the interpreter cannot be started; a step before
\* the exchange fails; connect() raises; the result tuple is too short; a
\* tuple (qos, key_stream_id, status), the key_stream_id possibly None
PyOpenAnswers ==
    {[kind |-> k, status |-> 0, ksid |-> ZeroKsid] :
        k \in {"init_fail", "setup_fail", "connect_fail", "short_tuple"}}
    \cup {[kind |-> "tuple", status |-> v, ksid |-> k] :
            v \in StatusCodes, k \in {ZeroKsid, test_key_uuid}}
\* answers to get_key: a step before the exchange fails; the call raises; a
\* tuple (status, key material, metadata text of length metadata_len)
PyGetKeyAnswers ==
    {[kind |-> k, status |-> 0, metadata_len |-> 0] :
        k \in {"setup_fail", "call_fail"}}
    \cup {[kind |-> "tuple", status |-> v, metadata_len |-> n] :
            v \in StatusCodes, n \in {0, 64, 65}}
\* answers to close: the method is missing; the call raises; an integer
PyCloseAnswers ==
    {[kind |-> k, status |-> 0] : k \in {"setup_fail", "call_fail"}}
    \cup {[kind |-> "int", status |-> v] : v \in StatusCodes}

\* `if (status) *status = st; return r;` and the caller's buffers
PyReturn(c, r, st, ksid, key, meta, instance) ==
    /\ call' = c
    /\ ret' = r
    /\ status' = IF c.args = "null_status" THEN Unset ELSE st
    /\ key_stream_id' = ksid
    /\ key_buffer' = key
    /\ metadata' = meta
    /\ py_qkd_client_instance' = instance
    /\ UNCHANGED <<backend, streams, now, faulted, seen, vault>>

\* initialize_python() has succeeded: the interpreter and the client exist
\* and a required pointer that is NULL is dereferenced
PyFault(c) ==
    /\ faulted' = TRUE
    /\ call' = c
    /\ ret' = Unset
    /\ status' = Unset
    /\ key_stream_id' = c.ksid
    /\ key_buffer' = Unwritten
    /\ metadata' = [NoMeta EXCEPT !.Metadata_size = c.meta]
    /\ py_qkd_client_instance' = TRUE
    /\ UNCHANGED <<backend, streams, now, seen, vault>>

python_client_open_connect(args, qos, ksid, answer) ==
    LET c == [op |-> "open_connect", args |-> args, ksid |-> ksid,
              qos |-> qos, index |-> 0, meta |-> 0]
        status_value ==
            IF answer.kind = "tuple" THEN answer.status
                                     ELSE QKD_STATUS_NO_CONNECTION
        id == IF /\ answer.kind = "tuple"
                 /\ status_value \in {QKD_STATUS_SUCCESS,
                                      QKD_STATUS_QOS_NOT_MET,
                                      QKD_STATUS_PEER_NOT_CONNECTED}
              THEN answer.ksid ELSE ZeroKsid
    IN
    /\ backend = PythonClient
    /\ Idle
    /\ answer.kind = "init_fail" => ~py_qkd_client_instance
    /\ IF answer.kind = "init_fail"
       THEN PyReturn(c, QKD_STATUS_NO_CONNECTION, QKD_STATUS_NO_CONNECTION,
                     ksid, Unwritten, NoMeta, FALSE)
       ELSE IF args = "null_arg" THEN PyFault(c)
       ELSE IF answer.kind = "setup_fail"
       THEN PyReturn(c, QKD_STATUS_NO_CONNECTION, QKD_STATUS_NO_CONNECTION,
                     ksid, Unwritten, NoMeta, TRUE)
       ELSE IF answer.kind = "connect_fail"
       THEN PyReturn(c, QKD_STATUS_PEER_NOT_CONNECTED,
                     QKD_STATUS_PEER_NOT_CONNECTED,
                     ksid, Unwritten, NoMeta, TRUE)
       ELSE PyReturn(c,
                     IF status_value = QKD_STATUS_QOS_NOT_MET
                     THEN QKD_STATUS_SUCCESS ELSE status_value,
                     status_value, id, Unwritten, NoMeta, TRUE)

python_client_get_key(args, ksid, index, meta, answer) ==
    LET c == [op |-> "get_key", args |-> args, ksid |-> ksid,
              qos |-> ZeroQos, index |-> index, meta |-> meta]
        \* the JSON text is put in the buffer when it fits
        sent == IF json_len < meta
                THEN [Metadata_size |-> meta, Metadata_buffer |-> json_len]
                ELSE [Metadata_size |-> meta, Metadata_buffer |-> Unwritten]
        fits == answer.metadata_len <= meta
        status_value ==
            IF answer.status = QKD_STATUS_SUCCESS /\ ~fits
            THEN QKD_STATUS_METADATA_SIZE_INSUFFICIENT ELSE answer.status
    IN
    /\ backend = PythonClient
    /\ Idle
    /\ IF ~py_qkd_client_instance
       THEN PyReturn(c, QKD_STATUS_NO_CONNECTION, QKD_STATUS_NO_CONNECTION,
                     ksid, Unwritten,
                     [NoMeta EXCEPT !.Metadata_size = meta], FALSE)
       ELSE IF answer.kind = "setup_fail"
       THEN PyReturn(c, QKD_STATUS_NO_CONNECTION, QKD_STATUS_NO_CONNECTION,
                     ksid, Unwritten,
                     [NoMeta EXCEPT !.Metadata_size = meta], TRUE)
       ELSE IF args = "null_arg" THEN PyFault(c)
       ELSE IF answer.kind = "call_fail"
       THEN PyReturn(c, QKD_STATUS_PEER_NOT_CONNECTED_GET_KEY,
                     QKD_STATUS_PEER_NOT_CONNECTED_GET_KEY,
                     ksid, Unwritten, sent, TRUE)
       ELSE PyReturn(c, status_value, status_value, ksid,
                     IF answer.status = QKD_STATUS_SUCCESS
                     THEN "server key" ELSE Unwritten,
                     IF answer.status = QKD_STATUS_SUCCESS /\ fits
                     THEN [sent EXCEPT !.Metadata_buffer = answer.metadata_len]
                     ELSE sent,
                     TRUE)

python_client_close(args, ksid, answer) ==
    LET c == [op |-> "close", args |-> args, ksid |-> ksid,
              qos |-> ZeroQos, index |-> 0, meta |-> 0]
        r == IF ~py_qkd_client_instance \/ answer.kind = "setup_fail"
             THEN QKD_STATUS_NO_CONNECTION
             ELSE IF answer.kind = "call_fail"
             THEN QKD_STATUS_PEER_NOT_CONNECTED
             ELSE answer.status
    IN
    /\ backend = PythonClient
    /\ Idle
    /\ PyReturn(c, r, r, ksid, Unwritten, NoMeta, py_qkd_client_instance)

PyOpenConnect ==
    \E x \in OpenArgs, a \in PyOpenAnswers :
        python_client_open_connect(x[1], x[2], x[3], a)
PyGetKey ==
    \E x \in GetKeyArgs, a \in PyGetKeyAnswers :
        python_client_get_key(x[1], x[2], x[3], x[4], a)
PyClose ==
    \E x \in CloseArgs, a \in PyCloseAnswers :
        python_client_close(x[1], x[2], a)

InitPython ==
    /\ backend = PythonClient
    /\ streams = [i \in Slots |-> ZeroStream]
    /\ now = 0
    /\ faulted = FALSE
    /\ call = NoCall
    /\ ret = Unset
    /\ status = Unset
    /\ key_stream_id = ZeroKsid
    /\ key_buffer = Unwritten
    /\ metadata = NoMeta
    /\ seen = NoSeen
    /\ py_qkd_client_instance = FALSE
    /\ key_store = <<>>
    /\ container = NoContainer
    /\ kme_status = NoStatus
    /\ QKD_DEBUG_LEVEL = 0
    /\ environ = NoEnviron
    /\ request_sent = NoRequest
    /\ retrieved = NoRetrieved
    /\ client = NoClient
    /\ callers = NoCallers

NextPython ==
    \/ PyOpenConnect
    \/ PyGetKey
    \/ PyClose
    \/ Return

SpecPython == InitPython /\ [][NextPython]_vars

\* ------------------------------------------ dispatch without a backend
\* static const struct qkd_..._backend *active_backend = NULL
NoBackend == "NULL"

\* OPEN_CONNECT, GET_KEY, CLOSE of the Stream API when active_backend is NULL
StreamNoBackend(c) ==
    /\ backend = NoBackend
    /\ Idle
    /\ call' = c
    /\ ret' = QKD_STATUS_NO_CONNECTION
    /\ status' = IF c.args = "null_status" THEN Unset
                                           ELSE QKD_STATUS_NO_CONNECTION
    /\ key_stream_id' = c.ksid
    /\ key_buffer' = Unwritten
    /\ metadata' = [NoMeta EXCEPT !.Metadata_size = c.meta]
    /\ UNCHANGED <<rest, backend, streams, now, faulted, seen>>

OPEN_CONNECT ==
    \E x \in OpenArgs :
        StreamNoBackend([op |-> "open_connect", args |-> x[1],
                         ksid |-> x[3], qos |-> x[2], index |-> 0,
                         meta |-> 0])
GET_KEY ==
    \E x \in GetKeyArgs :
        StreamNoBackend([op |-> "get_key", args |-> x[1], ksid |-> x[2],
                         qos |-> ZeroQos, index |-> x[3], meta |-> x[4]])
CLOSE ==
    \E x \in CloseArgs :
        StreamNoBackend([op |-> "close", args |-> x[1], ksid |-> x[2],
                         qos |-> ZeroQos, index |-> 0, meta |-> 0])

\* --------------------------------- Vault API (ETSI GS QKD 014): etsi014
QKD_STATUS_OK == 200
QKD_STATUS_BAD_REQUEST == 400
QKD_STATUS_SERVER_ERROR == 503
\* capacity of the simulated key store explored (MAX_KEYS is 1024 in the
\* source) and largest number of keys asked for in one request
MaxKeys == 3
MaxNumber == 2
\* MAX_KEYS of the single-key simulation
MAX_KEYS_SINGLE == 16

\* the backends a Vault build can have: the simulation with a key store, the
\* simulation that hands out one random key, a backend record whose
\* operations are not set
VaultSim == "etsi014 simulated_backend (key store)"
VaultSimSingle == "etsi014 simulated_backend (single key)"
EmptyBackend == "qkd_014_backend without operations"
VaultBackends == {NoBackend, EmptyBackend, VaultSim, VaultSimSingle}
VaultArgKinds == {"valid", "null_arg"}
NULL == "NULL"
\* a char * member of a key entry that is NULL
NullString == <<"NULL">>

\* "KEY_%zu" of the store index, and the digest of the store index
KeyId(n) == <<"KEY_", n>>
generate_simulated_key(n) == <<"sha256", n>>
KeyIds == {KeyId(n) : n \in 0..1} \cup {<<"sim-key-001">>}
IdRequests == {<<i>> : i \in KeyIds} \cup {<<i, j>> : i, j \in KeyIds}

\* a Vault call returns r; outputs and key store as given
VaultReturn(c, r, cont, st, store) ==
    /\ call' = c
    /\ ret' = r
    /\ container' = cont
    /\ kme_status' = st
    /\ key_store' = store
    /\ UNCHANGED <<backend, streams, now, faulted, status, key_stream_id,
                   key_buffer, metadata, seen, py_qkd_client_instance,
                   QKD_DEBUG_LEVEL, environ, request_sent, retrieved,
                   client, callers>>

\* a Vault call dereferences NULL or writes outside an array and traps
VaultFault(c) ==
    /\ call' = c
    /\ faulted' = TRUE
    /\ UNCHANGED <<backend, streams, now, ret, status, key_stream_id,
                   key_buffer, metadata, seen, rest>>

\* sim_get_key of the key-store simulation: fail_at = 0 when calloc fails,
\* k >= 1 when an allocation for entry k fails, -1 when none does
sim_get_key_store(c, number, fail_at) ==
    LET num_keys == IF number > 0 THEN number ELSE 1
        stored_key_count == Len(key_store)
        entry(i) == [key_ID |-> KeyId(stored_key_count + i - 1),
                     key |-> generate_simulated_key(stored_key_count + i - 1)]
        made == IF fail_at >= 1 THEN fail_at - 1 ELSE num_keys
        written == IF fail_at = 0 THEN 0
                   ELSE IF fail_at >= 1 THEN fail_at ELSE num_keys
        store == key_store \o [i \in 1..made |->
                                 [key_id |-> entry(i).key_ID,
                                  key |-> entry(i).key]]
    IN
    /\ fail_at <= num_keys
    /\ IF stored_key_count + written > MaxKeys
       THEN \* key_store[stored_key_count] is outside the array
            \/ VaultFault(c)
            \/ /\ stored_key_count + made <= MaxKeys + MaxNumber
               /\ VaultReturn(c,
                      IF fail_at >= 0 THEN QKD_STATUS_SERVER_ERROR
                                      ELSE QKD_STATUS_OK,
                      IF fail_at = 0 THEN container
                      ELSE IF fail_at >= 1 THEN NoContainer
                      ELSE [key_count |-> num_keys,
                            keys |-> [i \in 1..num_keys |-> entry(i)]],
                      kme_status, store)
       ELSE VaultReturn(c,
                IF fail_at >= 0 THEN QKD_STATUS_SERVER_ERROR
                                ELSE QKD_STATUS_OK,
                IF fail_at = 0 THEN container
                ELSE IF fail_at >= 1 THEN NoContainer
                ELSE [key_count |-> num_keys,
                      keys |-> [i \in 1..num_keys |-> entry(i)]],
                kme_status, store)

\* sim_get_key_with_ids of the key-store simulation
sim_get_key_with_ids_store(c, ids) ==
    LET hit(id) == {j \in 1..Len(key_store) : key_store[j].key_id = id}
        entry(id) == IF hit(id) = {}
                     THEN [key_ID |-> NullString, key |-> NullString]
                     ELSE [key_ID |-> id, key |-> key_store[Min(hit(id))].key]
    IN VaultReturn(c, QKD_STATUS_OK,
                   [key_count |-> Len(ids),
                    keys |-> [i \in 1..Len(ids) |-> entry(ids[i])]],
                   kme_status, key_store)

sim_get_status_store(c) ==
    VaultReturn(c, QKD_STATUS_OK, container,
                [stored_key_count |-> Len(key_store),
                 max_key_count |-> MaxKeys], key_store)

\* sim_get_key of the single-key simulation; rnd is what RAND_bytes gives,
\* NULL when it fails
sim_get_key_single(c, rnd) ==
    IF rnd = NULL
    THEN VaultReturn(c, QKD_STATUS_SERVER_ERROR, container, kme_status,
                     key_store)
    ELSE VaultReturn(c, QKD_STATUS_OK,
                     [key_count |-> 1,
                      keys |-> <<[key_ID |-> <<"sim-key-001">>,
                                  key |-> <<"base64", rnd>>]>>],
                     kme_status, key_store)

sim_get_status_single(c) ==
    VaultReturn(c, QKD_STATUS_OK, container,
                [stored_key_count |-> 0, max_key_count |-> MAX_KEYS_SINGLE],
                key_store)

RandomBytes == {NULL, "r1", "r2"}

\* ---------------- REST backend: etsi014/backends/qkd_etsi014_backend.c
RestBackend == "qkd_etsi014_backend"
\* what malloc'ed memory or an unassigned local holds before it is written
Uninitialized == <<"uninitialized">>
\* HTTP response codes on either side of the two thresholds
HttpCodes == {200, 400, 499, 500}

\* values the environment can give the three variables of each role
MasterTriples == [cert_path : {NULL, "master.crt", "master2.crt"},
                  key_path : {NULL, "master.key"},
                  ca_cert_path : {NULL, "master_ca.crt"}]
SlaveTriples == [cert_path : {NULL, "slave.crt", "slave2.crt"},
                 key_path : {NULL, "slave.key"},
                 ca_cert_path : {NULL, "slave_ca.crt"}]
Environs == [MASTER : MasterTriples, SLAVE : SlaveTriples]

\* an init_cert_config that loads the MASTER variables whatever the role
init_cert_config_master(role, env) ==
    LET t == env.MASTER IN
    IF t.cert_path = NULL \/ t.key_path = NULL \/ t.ca_cert_path = NULL
    THEN [ret |-> QKD_STATUS_BAD_REQUEST, config |-> NoTriple]
    ELSE [ret |-> QKD_STATUS_OK, config |-> t]

init_cert_config(role, env) ==
    \* role 1 loads the MASTER variables, any other role the SLAVE variables
    LET t == IF role = 1 THEN env.MASTER ELSE env.SLAVE IN
    IF t.cert_path = NULL \/ t.key_path = NULL \/ t.ca_cert_path = NULL
    THEN [ret |-> QKD_STATUS_BAD_REQUEST, config |-> NoTriple]
    ELSE [ret |-> QKD_STATUS_OK, config |-> t]

\* the entries a KME answers with: a well-formed key object or an element
\* that is not an object with string members key_ID and key
KmeEntries ==
    {[valid |-> TRUE, key_ID |-> KeyId(n), key |-> <<"kme", n>>] : n \in 0..1}
    \cup {[valid |-> FALSE, key_ID |-> KeyId(0), key |-> <<"kme", 0>>]}
\* response bodies: not JSON, JSON without a "keys" array, JSON with one
Bodies ==
    {[json |-> j, keys |-> <<>>] : j \in {"invalid", "no keys array"}}
    \cup {[json |-> "keys", keys |-> k] :
             k \in UNION {[1..n -> KmeEntries] : n \in 0..MaxNumber}}
\* what handle_request_https leaves its caller with: curl_easy_perform
\* failed (NULL response, http_code never assigned: code is what the
\* variable happened to hold) or a response with its code
NoTransport == [kind |-> "none", code |-> 0,
                body |-> [json |-> "invalid", keys |-> <<>>]]
Transports ==
    {[kind |-> "failed", code |-> c,
      body |-> [json |-> "invalid", keys |-> <<>>]] : c \in HttpCodes}
    \cup {[kind |-> "http", code |-> c, body |-> b] :
             c \in HttpCodes, b \in Bodies}

\* the request handle_request_https makes with the configuration given,
\* and how the exchange t went
Request(url, config, post_data, t) ==
    [url |-> url, cert_path |-> config.cert_path,
     key_path |-> config.key_path, ca_cert_path |-> config.ca_cert_path,
     post_data |-> post_data, res |-> t.kind,
     http_code |-> IF t.kind = "http" THEN t.code ELSE 0,
     json |-> IF t.kind = "http" THEN t.body.json ELSE "none",
     parsed |-> t.kind = "http" /\ t.body.json = "keys"]

\* parse_response_to_qkd_keys: the keys array is malloc'ed and the entries
\* that are not well formed are skipped, left as malloc gave them
parse_response_to_qkd_keys(body, cont) ==
    IF body.json # "keys"
    THEN [ret |-> -1, container |-> cont]
    ELSE [ret |-> 0,
          container |->
             [key_count |-> Len(body.keys),
              keys |-> [i \in 1..Len(body.keys) |->
                          IF body.keys[i].valid
                          THEN [key_ID |-> body.keys[i].key_ID,
                                key |-> body.keys[i].key]
                          ELSE [key_ID |-> Uninitialized,
                                key |-> Uninitialized]]]]

handle_http_response(t, cont) ==
    IF t.kind = "http" /\ t.code < 400
    THEN LET p == parse_response_to_qkd_keys(t.body, cont) IN
         IF p.ret = 0
         THEN [ret |-> QKD_STATUS_OK, container |-> p.container]
         ELSE [ret |-> QKD_STATUS_BAD_REQUEST, container |-> p.container]
    ELSE [ret |-> IF t.code < 500 THEN QKD_STATUS_BAD_REQUEST
                                  ELSE QKD_STATUS_SERVER_ERROR,
          container |-> cont]

\* a call of the REST backend returns r
RestReturn(c, r, cont, st, req) ==
    /\ call' = c
    /\ ret' = r
    /\ container' = cont
    /\ kme_status' = st
    /\ request_sent' = req
    /\ UNCHANGED <<backend, streams, now, faulted, status, key_stream_id,
                   key_buffer, metadata, seen, py_qkd_client_instance,
                   key_store, QKD_DEBUG_LEVEL, environ, retrieved, client,
                   callers>>

get_status(c, t) ==
    LET cfg == init_cert_config(1, environ)
        req == Request("status", cfg.config, NULL, t)
    IN
    IF cfg.ret # QKD_STATUS_OK
    THEN RestReturn(c, QKD_STATUS_BAD_REQUEST, container, kme_status,
                    NoRequest)
    ELSE IF t.kind = "http" /\ t.code < 400
    THEN RestReturn(c, QKD_STATUS_OK, container,
                    IF t.body.json = "invalid" THEN kme_status
                    ELSE [stored_key_count |-> 0, max_key_count |-> 0], req)
    ELSE RestReturn(c, IF t.code < 500 THEN QKD_STATUS_BAD_REQUEST
                                       ELSE QKD_STATUS_SERVER_ERROR,
                    container, kme_status, req)

get_key(c, number, t) ==
    LET \* container->keys = calloc(num_keys, ...), key_count = num_keys
        allocated == [key_count |-> number,
                      keys |-> [i \in 1..number |->
                                  [key_ID |-> NullString, key |-> NullString]]]
        cfg == init_cert_config(1, environ)
        h == handle_http_response(t, allocated)
    IN
    IF cfg.ret # QKD_STATUS_OK
    THEN RestReturn(c, QKD_STATUS_BAD_REQUEST, allocated, kme_status,
                    NoRequest)
    ELSE RestReturn(c, h.ret, h.container, kme_status,
                    Request("enc_keys", cfg.config, NULL, t))

get_key_with_ids(c, ids, t) ==
    LET cfg == init_cert_config(0, environ)
        h == handle_http_response(t, container)
    IN
    IF cfg.ret # QKD_STATUS_OK
    THEN RestReturn(c, QKD_STATUS_BAD_REQUEST, container, kme_status,
                    NoRequest)
    ELSE RestReturn(c, h.ret, h.container, kme_status,
                    Request("dec_keys", cfg.config, ids, t))

\* setenv between two calls of the library
SetEnv ==
    /\ backend = RestBackend
    /\ Idle
    /\ environ' \in Environs \ {environ}
    /\ UNCHANGED <<backend, streams, now, faulted, call, ret, status,
                   key_stream_id, key_buffer, metadata, seen,
                   py_qkd_client_instance, key_store, container, kme_status,
                   QKD_DEBUG_LEVEL, request_sent, retrieved, client,
                   callers>>

\* ------------------------------------------- etsi014/api.c entry points
GET_STATUS(args, t) ==
    LET c == [op |-> "GET_STATUS", args |-> args, number |-> 0,
              ids |-> <<>>]
    IN
    /\ backend \in VaultBackends \cup {RestBackend}
    /\ Idle
    /\ backend # RestBackend => t = NoTransport
    /\ backend = RestBackend => t # NoTransport
    /\ IF args = "null_arg"
       THEN VaultReturn(c, QKD_STATUS_BAD_REQUEST, container, kme_status,
                        key_store)
       ELSE IF backend \in {NoBackend, EmptyBackend}
       THEN VaultReturn(c, QKD_STATUS_SERVER_ERROR, container, kme_status,
                        key_store)
       ELSE IF backend = VaultSim THEN sim_get_status_store(c)
       ELSE IF backend = VaultSimSingle THEN sim_get_status_single(c)
       ELSE get_status(c, t)

GET_KEY_014(args, number, fail_at, rnd, t) ==
    LET c == [op |-> "GET_KEY", args |-> args, number |-> number,
              ids |-> <<>>]
    IN
    /\ backend \in VaultBackends \cup {RestBackend}
    /\ Idle
    /\ backend # VaultSim => fail_at = -1
    /\ backend # VaultSimSingle => rnd = "r1"
    /\ backend # RestBackend => t = NoTransport
    /\ backend = RestBackend => t # NoTransport
    /\ \/ \* QKD_DBG_INFO(..., active_backend->name) through a NULL pointer
          /\ QKD_DEBUG_LEVEL >= 3
          /\ backend = NoBackend
          /\ VaultFault(c)
       \/ IF args = "null_arg"
          THEN VaultReturn(c, QKD_STATUS_BAD_REQUEST, container, kme_status,
                           key_store)
          ELSE IF backend \in {NoBackend, EmptyBackend}
          THEN VaultReturn(c, QKD_STATUS_SERVER_ERROR, container,
                           kme_status, key_store)
          ELSE IF backend = VaultSim
          THEN sim_get_key_store(c, number, fail_at)
          ELSE IF backend = VaultSimSingle THEN sim_get_key_single(c, rnd)
          ELSE get_key(c, number, t)

GET_KEY_WITH_IDS(args, ids, rnd, t) ==
    LET c == [op |-> "GET_KEY_WITH_IDS", args |-> args, number |-> 0,
              ids |-> ids]
    IN
    /\ backend \in VaultBackends \cup {RestBackend}
    /\ Idle
    /\ backend # VaultSimSingle => rnd = "r1"
    /\ backend # RestBackend => t = NoTransport
    /\ backend = RestBackend => t # NoTransport
    /\ IF args = "null_arg"
       THEN VaultReturn(c, QKD_STATUS_BAD_REQUEST, container, kme_status,
                        key_store)
       ELSE IF backend \in {NoBackend, EmptyBackend}
       THEN VaultReturn(c, QKD_STATUS_SERVER_ERROR, container, kme_status,
                        key_store)
       ELSE IF backend = VaultSim THEN sim_get_key_with_ids_store(c, ids)
       ELSE IF backend = VaultSimSingle THEN sim_get_key_single(c, rnd)
       ELSE get_key_with_ids(c, ids, t)

\* only the REST backend goes to the network, only the key store can fail
\* an allocation part way, only the single-key simulation draws random bytes
TransportInputs == IF backend = RestBackend THEN Transports ELSE {NoTransport}
FailAtInputs == IF backend = VaultSim THEN -1..MaxNumber ELSE {-1}
RandomInputs == IF backend = VaultSimSingle THEN RandomBytes ELSE {"r1"}

GetStatus ==
    \E a \in VaultArgKinds, t \in TransportInputs : GET_STATUS(a, t)
VaultGetKey ==
    \E a \in VaultArgKinds, n \in 0..MaxNumber, f \in FailAtInputs,
       r \in RandomInputs, t \in TransportInputs :
        (a = "valid" \/ n = 1) /\ GET_KEY_014(a, n, f, r, t)
GetKeyWithIds ==
    \E a \in VaultArgKinds, ids \in IdRequests, r \in RandomInputs,
       t \in TransportInputs :
        (a = "valid" \/ Len(ids) = 1) /\ GET_KEY_WITH_IDS(a, ids, r, t)

\* the caller has looked at the results of a Vault call and frees them
VaultDone ==
    /\ call.op # "none"
    /\ ~faulted
    /\ call' = NoCall
    /\ ret' = Unset
    /\ status' = Unset
    /\ key_stream_id' = ZeroKsid
    /\ key_buffer' = Unwritten
    /\ metadata' = NoMeta
    /\ container' = NoContainer
    /\ kme_status' = NoStatus
    /\ request_sent' = NoRequest
    /\ retrieved' \in
          IF retrieved.recording /\ call.op = "GET_KEY_WITH_IDS"
             /\ ret = QKD_STATUS_OK
          THEN {retrieved} \cup
               {[recording |-> TRUE, key_ID |-> container.keys[i].key_ID,
                 key |-> container.keys[i].key] :
                    i \in 1..Len(container.keys)}
          ELSE {retrieved}
    /\ UNCHANGED <<backend, streams, now, faulted, seen,
                   py_qkd_client_instance, key_store, QKD_DEBUG_LEVEL,
                   environ, client, callers>>

InitVault ==
    /\ backend \in VaultBackends
    /\ QKD_DEBUG_LEVEL \in 0..4
    /\ environ = NoEnviron
    /\ request_sent = NoRequest
    /\ retrieved = NoneRetrieved
    /\ client = NoClient
    /\ callers = NoCallers
    /\ streams = [i \in Slots |-> ZeroStream]
    /\ now = 0
    /\ faulted = FALSE
    /\ call = NoCall
    /\ ret = Unset
    /\ status = Unset
    /\ key_stream_id = ZeroKsid
    /\ key_buffer = Unwritten
    /\ metadata = NoMeta
    /\ seen = NoSeen
    /\ py_qkd_client_instance = FALSE
    /\ key_store = <<>>
    /\ container = NoContainer
    /\ kme_status = NoStatus

NextVault ==
    \/ GetStatus
    \/ VaultGetKey
    \/ GetKeyWithIds
    \/ OPEN_CONNECT
    \/ GET_KEY
    \/ CLOSE
    \/ VaultDone

SpecVault == InitVault /\ [][NextVault]_vars

\* ------------------------------------------- the library over the REST backend
InitRest ==
    /\ backend = RestBackend
    /\ QKD_DEBUG_LEVEL = 0
    /\ environ = NoEnviron
    /\ request_sent = NoRequest
    /\ retrieved = NoRetrieved
    /\ client = NoClient
    /\ callers = NoCallers
    /\ streams = [i \in Slots |-> ZeroStream]
    /\ now = 0
    /\ faulted = FALSE
    /\ call = NoCall
    /\ ret = Unset
    /\ status = Unset
    /\ key_stream_id = ZeroKsid
    /\ key_buffer = Unwritten
    /\ metadata = NoMeta
    /\ seen = NoSeen
    /\ py_qkd_client_instance = FALSE
    /\ key_store = <<>>
    /\ container = NoContainer
    /\ kme_status = NoStatus

NextRest ==
    \/ GetStatus
    \/ VaultGetKey
    \/ GetKeyWithIds
    \/ SetEnv
    \/ VaultDone

SpecRest == InitRest /\ [][NextRest]_vars

\* ------- QKDClient, the Python source embedded in python_client.c (602-948)
\* bytes objects are sequences of 0..255, str objects sequences of code points
VERSION == <<1, 0, 1>>
QKD_SERVICE_OPEN_CONNECT_REQUEST == 2
QKD_SERVICE_OPEN_CONNECT_RESPONSE == 3
QKD_SERVICE_GET_KEY_REQUEST == 4
QKD_SERVICE_GET_KEY_RESPONSE == 5
QKD_SERVICE_CLOSE_REQUEST == 8
QKD_SERVICE_CLOSE_RESPONSE == 9
QOS_FIELD_COUNT == 7
QOS_FIELD_SIZE == 4
METADATA_MIMETYPE_SIZE == 256
STATUS_SUCCESS == 0
STATUS_PEER_NOT_CONNECTED == 1
STATUS_INSUFFICIENT_KEY == 2
STATUS_KSID_IN_USE == 5
STATUS_QOS_NOT_MET == 7
STATUS_METADATA_SIZE_INSUFFICIENT == 8

Repeat(x, n) == [i \in 1..n |-> x]
\* b[i:j] of Python: out-of-range ends are clamped
Slice(b, i, j) == SubSeq(b, i + 1, IF j < Len(b) THEN j ELSE Len(b))
\* struct.pack('!I', v): four bytes, most significant first
pack_I(v) ==
    <<(v \div 16777216) % 256, (v \div 65536) % 256, (v \div 256) % 256,
      v % 256>>
\* struct.pack('!b', v): one byte, two's complement
pack_b(v) == <<IF v < 0 THEN v + 256 ELSE v>>
\* struct.unpack('!I', b)[0]; struct.error (-1 here) unless b has 4 bytes
unpack_I(b) ==
    IF Len(b) # 4 THEN -1
    ELSE ((b[1] * 256 + b[2]) * 256 + b[3]) * 256 + b[4]
\* str.encode(): UTF-8, code points below 0x800; the string is encoded
\* half by half
RECURSIVE encode(_)
encode(str) ==
    IF str = <<>> THEN <<>>
    ELSE IF Len(str) = 1
    THEN (IF str[1] < 128 THEN str
          ELSE <<192 + (str[1] \div 64), 128 + (str[1] % 64)>>)
    ELSE encode(SubSeq(str, 1, Len(str) \div 2))
         \o encode(SubSeq(str, (Len(str) \div 2) + 1, Len(str)))
\* bytes.decode(): UnicodeDecodeError is reported in ok; the bytes are
\* decoded half by half, a lead byte staying with the byte that follows it
RECURSIVE decode(_)
decode(b) ==
    IF b = <<>> THEN [ok |-> TRUE, str |-> <<>>]
    ELSE IF Len(b) = 1
    THEN [ok |-> b[1] < 128, str |-> IF b[1] < 128 THEN b ELSE <<>>]
    ELSE IF Len(b) = 2 /\ b[1] >= 128
    THEN (IF b[1] \in 194..223 /\ b[2] \in 128..191
          THEN [ok |-> TRUE, str |-> <<(b[1] - 192) * 64 + (b[2] - 128)>>]
          ELSE [ok |-> FALSE, str |-> <<>>])
    ELSE LET half == Len(b) \div 2
             m == IF Len(b) > 2 /\ b[half] >= 192 THEN half + 1 ELSE half
             l == decode(SubSeq(b, 1, m))
             r == decode(SubSeq(b, m + 1, Len(b)))
         IN IF l.ok /\ r.ok THEN [ok |-> TRUE, str |-> l.str \o r.str]
            ELSE [ok |-> FALSE, str |-> <<>>]
\* bytes.ljust(width, b'\x00'): pads on the right, never shortens
ljust(b, width) ==
    IF Len(b) >= width THEN b ELSE b \o Repeat(0, width - Len(b))
\* str.strip('\x00'): NUL characters removed from both ends
strip(str) ==
    LET kept == {i \in 1..Len(str) : str[i] # 0}
    IN IF kept = {} THEN <<>>
       ELSE SubSeq(str, CHOOSE i \in kept : \A j \in kept : i <= j,
                   CHOOSE i \in kept : \A j \in kept : i >= j)

construct_request(service_type, payload) ==
    VERSION \o pack_b(service_type) \o pack_I(Len(payload)) \o payload

construct_qos(qos) ==
    pack_I(qos.Key_chunk_size) \o pack_I(qos.Max_bps) \o pack_I(qos.Min_bps)
    \o pack_I(qos.Jitter) \o pack_I(qos.Priority) \o pack_I(qos.Timeout)
    \o pack_I(qos.TTL)
    \o ljust(encode(qos.Metadata_mimetype), METADATA_MIMETYPE_SIZE)

\* parse_qos: struct.unpack('!7I', ...) needs its 28 bytes, decode() UTF-8
parse_qos(qos_data) ==
    LET head == Slice(qos_data, 0, QOS_FIELD_COUNT * QOS_FIELD_SIZE)
        mime == decode(Slice(qos_data, QOS_FIELD_COUNT * QOS_FIELD_SIZE,
                             Len(qos_data)))
        f(k) == unpack_I(Slice(head, 4 * k, 4 * k + 4))
    IN IF Len(head) < QOS_FIELD_COUNT * QOS_FIELD_SIZE \/ ~mime.ok
       THEN [raised |-> TRUE, qos |-> <<>>]
       ELSE [raised |-> FALSE,
             qos |-> [Key_chunk_size |-> f(0), Max_bps |-> f(1),
                      Min_bps |-> f(2), Jitter |-> f(3), Priority |-> f(4),
                      Timeout |-> f(5), TTL |-> f(6),
                      Metadata_mimetype |-> strip(mime.str)]]

\* recv_full_data: sock.recv until `length` bytes are there; recv gives at
\* most net.chunk bytes at a time, and when the peer has no more to send it
\* returns b'' (the peer closed) or raises after the 5 s socket timeout
RECURSIVE recv_full_data(_, _, _, _)
recv_full_data(data, stream, length, net) ==
    IF Len(data) >= length
    THEN [data |-> data, rest |-> stream, raised |-> FALSE]
    ELSE IF stream = <<>>
    THEN [data |-> data, rest |-> stream, raised |-> net.ending = "timeout"]
    ELSE LET want == length - Len(data)
             n == IF want < net.chunk THEN want ELSE net.chunk
         IN recv_full_data(data \o Slice(stream, 0, n),
                           Slice(stream, n, Len(stream)), length, net)

NoFrame == [kind |-> "raised", frame |-> <<>>]
\* a recv_full_response that hands back whatever payload arrived
recv_full_response_unchecked(stream, net) ==
    LET header == recv_full_data(<<>>, stream, 8, net)
        payload_length == unpack_I(Slice(header.data, 4, 8))
        payload == recv_full_data(<<>>, header.rest, payload_length, net)
    IN IF header.raised \/ Len(header.data) < 8 THEN NoFrame
       ELSE IF payload.raised THEN NoFrame
       ELSE [kind |-> "frame", frame |-> header.data \o payload.data]

recv_full_response(stream, net) ==
    \* KnownException or the socket's TimeoutError: "raised"
    LET header == recv_full_data(<<>>, stream, 8, net)
        payload_length == unpack_I(Slice(header.data, 4, 8))
        payload == recv_full_data(<<>>, header.rest, payload_length, net)
    IN IF header.raised \/ Len(header.data) < 8 THEN NoFrame
       ELSE IF payload.raised \/ Len(payload.data) < payload_length
       THEN NoFrame
       ELSE [kind |-> "frame", frame |-> header.data \o payload.data]

ZeroUuid == Repeat(0, 16)
NoResult == [raised |-> FALSE, status |-> -1, key_material |-> <<>>,
             metadata |-> <<>>]
Raised == [raised |-> TRUE, status |-> -1, key_material |-> <<>>,
           metadata |-> <<>>]
\* payload of a response: response[8:8 + payload_length]
Payload(response) ==
    Slice(response, 8, 8 + unpack_I(Slice(response, 4, 8)))

\* parse_open_connect_response, with the self.qos it leaves behind
parse_open_connect_response(response, qos) ==
    LET payload == Payload(response)
        code == unpack_I(Slice(payload, 0, 4))
        qos_end == 4 + (QOS_FIELD_COUNT * QOS_FIELD_SIZE)
                     + METADATA_MIMETYPE_SIZE
        server_qos == parse_qos(Slice(payload, 4, qos_end))
        key_stream_id_bytes == Slice(payload, qos_end, qos_end + 16)
    IN IF code = -1
       THEN [raised |-> TRUE, status |-> -1, key_stream_id |-> ZeroUuid,
             qos |-> qos]
       ELSE IF code \notin {STATUS_SUCCESS, STATUS_QOS_NOT_MET}
       THEN [raised |-> FALSE, status |-> code,
             key_stream_id |-> ZeroUuid, qos |-> qos]
       ELSE IF server_qos.raised
       THEN [raised |-> TRUE, status |-> code,
             key_stream_id |-> ZeroUuid, qos |-> qos]
       ELSE IF Len(key_stream_id_bytes) # 16
       THEN \* uuid.UUID(bytes=...) raises ValueError; self.qos is replaced
            [raised |-> TRUE, status |-> code,
             key_stream_id |-> ZeroUuid, qos |-> server_qos.qos]
       ELSE [raised |-> FALSE, status |-> code,
             key_stream_id |-> key_stream_id_bytes, qos |-> server_qos.qos]

parse_get_key_response(response) ==
    LET payload == Payload(response)
        code == unpack_I(Slice(payload, 0, 4))
        key_chunk_size == unpack_I(Slice(payload, 8, 12))
        key_material_end == 12 + key_chunk_size
        metadata_size ==
            unpack_I(Slice(payload, key_material_end, key_material_end + 4))
        text == decode(Slice(payload, key_material_end + 4,
                                 key_material_end + 4 + metadata_size))
    IN IF code = -1 THEN Raised
       ELSE IF code # STATUS_SUCCESS
       THEN [raised |-> FALSE, status |-> code, key_material |-> <<>>,
             metadata |-> <<>>]
       ELSE IF unpack_I(Slice(payload, 4, 8)) = -1 \/ key_chunk_size = -1
               \/ metadata_size = -1 \/ ~text.ok
       THEN Raised
       ELSE [raised |-> FALSE, status |-> code,
             key_material |-> Slice(payload, 12, key_material_end),
             metadata |-> text.str]

parse_close_response(response) ==
    LET code == unpack_I(Slice(Payload(response), 0, 4))
    IN IF code = -1 THEN Raised
       ELSE [raised |-> FALSE, status |-> code, key_material |-> <<>>,
             metadata |-> <<>>]

\* QoS records the wrapper hands to the client, mime types by their length
QosFields ==
    {[Key_chunk_size |-> 512, Max_bps |-> 40000, Min_bps |-> 5000,
      Jitter |-> 10, Priority |-> 0, Timeout |-> 5000, TTL |-> 3600],
     [Key_chunk_size |-> 0, Max_bps |-> 0, Min_bps |-> 0,
      Jitter |-> 0, Priority |-> 0, Timeout |-> 0, TTL |-> 0],
     [Key_chunk_size |-> 2147483647, Max_bps |-> 16777216, Min_bps |-> 65536,
      Jitter |-> 256, Priority |-> 255, Timeout |-> 65535, TTL |-> 1]}
MimeTypes ==
    {<<>>, <<97, 47, 98>>, <<233, 47, 98>>,
     Repeat(97, METADATA_MIMETYPE_SIZE - 1),
     Repeat(97, METADATA_MIMETYPE_SIZE),
     Repeat(97, METADATA_MIMETYPE_SIZE + 1)}
WithMime(fields, mime) ==
    [Key_chunk_size |-> fields.Key_chunk_size, Max_bps |-> fields.Max_bps,
     Min_bps |-> fields.Min_bps, Jitter |-> fields.Jitter,
     Priority |-> fields.Priority, Timeout |-> fields.Timeout,
     TTL |-> fields.TTL, Metadata_mimetype |-> mime]
QosRecords == {WithMime(f, m) : f \in QosFields, m \in MimeTypes}
Uris == {<<>>, <<113, 58, 49>>}
ServerUuid == [i \in 1..16 |-> i]
\* what a server can answer: the frame of a kind, whole, cut short after
\* some bytes, or followed by the start of something else
ServerKinds == {"accept", "adjust", "refuse"}
Cuts == {0, 5, 8, 11, 40}
Whole == -1
Extra == -2
Nets == [chunk : {64, 4096}, ending : {"closed", "timeout"}]
AdjustedQos ==
    [Key_chunk_size |-> 32, Max_bps |-> 1000, Min_bps |-> 100,
     Jitter |-> 1, Priority |-> 2, Timeout |-> 3, TTL |-> 4,
     Metadata_mimetype |-> <<97, 47, 98>>]
\* (the server reads the QoS block of an OPEN_CONNECT request where the two
\* NUL-terminated URIs end: at byte `at` of the request)
\* the status a refusing server puts in its response
RefusedStatus(kind) ==
    CASE kind = "ksid_in_use" -> STATUS_KSID_IN_USE
      [] kind = "insufficient_key" -> STATUS_INSUFFICIENT_KEY
      [] kind = "metadata_size" -> STATUS_METADATA_SIZE_INSUFFICIENT
      [] OTHER -> STATUS_PEER_NOT_CONNECTED
ServerFrame(op, kind, request, at) ==
    LET body ==
        IF kind \notin {"accept", "adjust"} THEN pack_I(RefusedStatus(kind))
        ELSE IF op = "open_connect"
        THEN (IF kind = "accept"
              THEN pack_I(STATUS_SUCCESS)
                   \o Slice(request, at,
                            at + 28 + METADATA_MIMETYPE_SIZE)
              ELSE pack_I(STATUS_QOS_NOT_MET) \o construct_qos(AdjustedQos))
             \o ServerUuid
        ELSE IF op = "get_key"
        THEN pack_I(STATUS_SUCCESS) \o Slice(request, 24, 28) \o pack_I(4)
             \o <<222, 173, 190, 239>>
             \o (IF kind = "accept" THEN pack_I(2) \o <<123, 125>>
                 ELSE pack_I(0))
        ELSE pack_I(STATUS_SUCCESS)
        service == IF op = "open_connect"
                   THEN QKD_SERVICE_OPEN_CONNECT_RESPONSE
                   ELSE IF op = "get_key" THEN QKD_SERVICE_GET_KEY_RESPONSE
                   ELSE QKD_SERVICE_CLOSE_RESPONSE
    IN VERSION \o pack_b(service) \o pack_I(Len(body)) \o body
Incoming(frame, cut) ==
    IF cut = Whole THEN frame
    ELSE IF cut = Extra THEN frame \o <<1, 0>>
    ELSE Slice(frame, 0, cut)

NewClient(qos) ==
    [made |-> TRUE, sock |-> FALSE, qos |-> qos, key_stream_id |-> ZeroUuid,
     op |-> "none",
     request |-> <<>>, incoming |-> <<>>, response |-> NoFrame,
     result |-> NoResult, block |-> <<>>,
     decoded |-> [raised |-> FALSE, qos |-> <<>>]]
ClientIdle == client.made /\ client.op = "none"
ClientUnchanged ==
    UNCHANGED <<backend, streams, now, faulted, call, ret, status,
                key_stream_id, key_buffer, metadata, seen,
                py_qkd_client_instance, key_store, container, kme_status,
                QKD_DEBUG_LEVEL, environ, request_sent, retrieved,
                callers>>

\* QKDClient.open_connect: request out, response in, the object updated
QKDClient_open_connect(self, source_uri, dest_uri, kind, cut, net) ==
    LET payload == encode(source_uri) \o <<0>> \o encode(dest_uri) \o <<0>>
                   \o construct_qos(self.qos) \o self.key_stream_id
        request == construct_request(QKD_SERVICE_OPEN_CONNECT_REQUEST,
                                     payload)
        incoming == Incoming(ServerFrame("open_connect", kind, request,
                                        8 + Len(encode(source_uri)) + 1
                                          + Len(encode(dest_uri)) + 1),
                            cut)
        response == recv_full_response(incoming, net)
        parsed == parse_open_connect_response(response.frame, self.qos)
        good == /\ response.kind = "frame"
                /\ ~parsed.raised
                /\ parsed.status \in {STATUS_SUCCESS, STATUS_QOS_NOT_MET}
    IN
    [self EXCEPT
       !.op = "open_connect", !.request = request,
       !.incoming = incoming, !.response = response,
       !.qos = IF response.kind = "frame" THEN parsed.qos ELSE @,
       !.key_stream_id = IF good THEN parsed.key_stream_id ELSE @,
       !.result = IF good
                  THEN [raised |-> FALSE, status |-> parsed.status,
                        key_material |-> <<>>, metadata |-> <<>>]
                  ELSE Raised]
open_connect(source_uri, dest_uri, kind, cut, net) ==
    /\ ClientIdle
    /\ client' = QKDClient_open_connect(client, source_uri, dest_uri, kind,
                                        cut, net)
    /\ ClientUnchanged

\* QKDClient.get_key
QKDClient_get_key(self, index, metadata_size, kind, cut, net) ==
    LET payload == self.key_stream_id \o pack_I(index)
                   \o pack_I(metadata_size)
        request == construct_request(QKD_SERVICE_GET_KEY_REQUEST, payload)
        incoming == Incoming(ServerFrame("get_key", kind, request, 0), cut)
        response == recv_full_response(incoming, net)
        parsed == parse_get_key_response(response.frame)
    IN
    [self EXCEPT
       !.op = "get_key", !.request = request,
       !.incoming = incoming, !.response = response,
       !.result = IF response.kind = "frame" /\ ~parsed.raised
                     /\ parsed.status = STATUS_SUCCESS
                  THEN parsed ELSE Raised]
get_key_client(index, metadata_size, kind, cut, net) ==
    /\ ClientIdle
    /\ client' = QKDClient_get_key(client, index, metadata_size, kind, cut,
                                    net)
    /\ ClientUnchanged

\* QKDClient.close
QKDClient_close(self, kind, cut, net) ==
    LET request == construct_request(QKD_SERVICE_CLOSE_REQUEST,
                                     self.key_stream_id)
        incoming == Incoming(ServerFrame("close", kind, request, 0), cut)
        response == recv_full_response(incoming, net)
        parsed == parse_close_response(response.frame)
    IN
    [self EXCEPT
       !.op = "close", !.request = request,
       !.incoming = incoming, !.response = response,
       !.result = IF response.kind = "frame" /\ ~parsed.raised
                     /\ parsed.status = STATUS_SUCCESS
                  THEN parsed ELSE Raised]
close_client(kind, cut, net) ==
    /\ ClientIdle
    /\ client' = QKDClient_close(client, kind, cut, net)
    /\ ClientUnchanged

\* construct_qos applied to the object's QoS, and parse_qos to its block
ConstructQos ==
    /\ ClientIdle
    /\ client' = [client EXCEPT !.op = "construct_qos",
                                !.block = construct_qos(client.qos)]
    /\ ClientUnchanged
ParseQos ==
    /\ client.made
    /\ client.op = "construct_qos"
    /\ client' = [client EXCEPT !.op = "parse_qos",
                                !.decoded = parse_qos(client.block)]
    /\ ClientUnchanged
OpenConnectClient ==
    \E s, d \in Uris, k \in ServerKinds, c \in Cuts \cup {Whole, Extra},
       n \in Nets : open_connect(s, d, k, c, n)
GetKeyClient ==
    \E i \in 0..1, m \in {0, 1024}, k \in ServerKinds,
       c \in Cuts \cup {Whole, Extra}, n \in Nets :
        get_key_client(i, m, k, c, n)
CloseClient ==
    \E k \in ServerKinds, c \in Cuts \cup {Whole, Extra}, n \in Nets :
        close_client(k, c, n)
\* the caller has looked at the outcome
ClientDone ==
    /\ client.made
    /\ client.op # "none"
    /\ client' = [NewClient(client.qos) EXCEPT
                     !.key_stream_id = client.key_stream_id]
    /\ ClientUnchanged

InitWire ==
    /\ backend = PythonClient
    /\ streams = [i \in Slots |-> ZeroStream]
    /\ now = 0
    /\ faulted = FALSE
    /\ call = NoCall
    /\ ret = Unset
    /\ status = Unset
    /\ key_stream_id = ZeroKsid
    /\ key_buffer = Unwritten
    /\ metadata = NoMeta
    /\ seen = NoSeen
    /\ py_qkd_client_instance = TRUE
    /\ key_store = <<>>
    /\ container = NoContainer
    /\ kme_status = NoStatus
    /\ QKD_DEBUG_LEVEL = 0
    /\ environ = NoEnviron
    /\ request_sent = NoRequest
    /\ retrieved = NoRetrieved
    /\ client \in {NewClient(q) : q \in QosRecords}
    /\ callers = NoCallers

NextWire ==
    \/ OpenConnectClient
    \/ GetKeyClient
    \/ CloseClient
    \/ ConstructQos
    \/ ParseQos
    \/ ClientDone

SpecWire == InitWire /\ [][NextWire]_vars

\* ---- the C functions around the embedded client
\* (python_client.c:949-1357). py_qkd_client_instance is the C pointer
\* (TRUE: not NULL); client.made says whether the object it points at is
\* alive, which is also when the interpreter is up.
Py_IsInitialized == client.made
\* starting the interpreter: it works; it fails before the instance is
\* made; making the instance fails (the pointer is then assigned NULL)
Boots == {"ok", "no_interpreter", "no_instance"}
ServerUri == <<115, 101, 114, 118, 101, 114, 58, 47, 47, 104, 58, 49>>
BridgeDests == {<<113, 58, 49>>, ServerUri}
BridgeQos == {WithMime(f, <<97, 47, 98>>) : f \in QosFields}
BridgeKinds ==
    ServerKinds \cup {"ksid_in_use", "insufficient_key", "metadata_size"}
BridgeCuts == {Whole, 5}
BridgeNets == {[chunk |-> 4096, ending |-> "closed"]}
DefaultQos ==
    WithMime([Key_chunk_size |-> 512, Max_bps |-> 40000, Min_bps |-> 5000,
              Jitter |-> 10, Priority |-> 0, Timeout |-> 5000,
              TTL |-> 3600], <<97, 47, 98>>)
NoBridgeCall == [op |-> "none", served |-> -1, released |-> FALSE]
\* the status code of the response the client object received, -1 if no
\* whole response with a status code came in
ServedStatus(self) ==
    IF self.response.kind = "frame"
    THEN unpack_I(Slice(Payload(self.response.frame), 0, 4))
    ELSE -1

initialize_python(boot) ==
    IF Py_IsInitialized
    THEN [ok |-> TRUE, instance |-> py_qkd_client_instance,
          object |-> client]
    ELSE IF boot = "ok"
    THEN [ok |-> TRUE, instance |-> TRUE, object |-> NewClient(DefaultQos)]
    ELSE [ok |-> FALSE,
          instance |-> IF boot = "no_instance" THEN FALSE
                       ELSE py_qkd_client_instance,
          object |-> NoClient]
\* finalize_python: the references are dropped and the interpreter ended;
\* the three pointers keep their values
finalize_python == [instance |-> py_qkd_client_instance, object |-> NoClient]
\* sscanf(destination, "server://%255[^:]:%d", ...) >= 1
sscanf_destination(destination) ==
    /\ Len(destination) >= 10
    /\ Slice(destination, 0, 9) = Slice(ServerUri, 0, 9)
    /\ destination[10] # 58

BridgeIdle == backend = PythonClient /\ call.op = "none" /\ ~faulted
BridgeUnchanged ==
    UNCHANGED <<backend, streams, now, seen, key_store, container,
                kme_status, QKD_DEBUG_LEVEL, environ, request_sent,
                retrieved, callers>>
BridgeReturn(op, r, served, released, instance, object, ksid, key, meta) ==
    /\ call' = [op |-> op, served |-> served, released |-> released]
    /\ ret' = r
    /\ status' = r
    /\ faulted' = FALSE
    /\ py_qkd_client_instance' = instance
    /\ client' = object
    /\ key_stream_id' = ksid
    /\ key_buffer' = key
    /\ metadata' = meta
    /\ BridgeUnchanged
\* a call through the pointer to the released object: the process faults, or
\* the attribute lookup fails, or the call fails
BridgeReleased(op, outcome, failed) ==
    IF outcome = "fault"
    THEN /\ call' = [op |-> op, served |-> -1, released |-> TRUE]
         /\ faulted' = TRUE
         /\ ret' = Unset
         /\ status' = Unset
         /\ UNCHANGED <<py_qkd_client_instance, client, key_stream_id,
                        key_buffer, metadata>>
         /\ BridgeUnchanged
    ELSE BridgeReturn(op, IF outcome = "no_attribute"
                          THEN QKD_STATUS_NO_CONNECTION ELSE failed,
                      -1, TRUE, py_qkd_client_instance, client,
                      key_stream_id, key_buffer, metadata)
ReleasedOutcomes == {"fault", "no_attribute", "call_failed"}
\* the inputs that matter in the current state
BootInputs == IF Py_IsInitialized THEN {"ok"} ELSE Boots
KindInputs == IF client.made /\ client.sock THEN BridgeKinds ELSE {"accept"}
CutInputs == IF client.made /\ client.sock THEN BridgeCuts ELSE {Whole}
OutcomeInputs ==
    IF py_qkd_client_instance /\ ~client.made THEN ReleasedOutcomes
    ELSE {"fault"}

\* python_client_open_connect of the embedded client
embedded_open_connect(source, destination, qos, boot, conn, kind, cut, net) ==
    LET init == initialize_python(boot)
        made == [init.object EXCEPT !.qos = qos]
        connected == [made EXCEPT !.sock = TRUE]
        after == QKDClient_open_connect(connected, source, destination,
                                        kind, cut, net)
        status_value == after.result.status
    IN
    /\ BridgeIdle
    /\ IF ~init.ok
       THEN BridgeReturn("open_connect", QKD_STATUS_NO_CONNECTION, -1, FALSE,
                         init.instance, init.object, key_stream_id,
                         key_buffer, metadata)
       ELSE IF ~init.object.made
       THEN BridgeReleased("open_connect", "fault", Unset)
       ELSE IF ~sscanf_destination(destination)
       THEN BridgeReturn("open_connect", QKD_STATUS_NO_CONNECTION, -1, FALSE,
                         init.instance, made, key_stream_id, key_buffer,
                         metadata)
       ELSE IF conn = "refused"
       THEN BridgeReturn("open_connect", QKD_STATUS_PEER_NOT_CONNECTED, -1,
                         FALSE, init.instance, made, key_stream_id,
                         key_buffer, metadata)
       ELSE IF after.result.raised
       THEN BridgeReturn("open_connect", QKD_STATUS_NO_CONNECTION,
                         ServedStatus(after), FALSE, init.instance, after,
                         key_stream_id, key_buffer, metadata)
       ELSE BridgeReturn("open_connect", status_value, ServedStatus(after),
                         FALSE, init.instance, after, after.key_stream_id,
                         key_buffer, metadata)

\* python_client_get_key of the embedded client
embedded_get_key(index, metadata_size, kind, cut, net, outcome) ==
    LET after == IF client.made /\ client.sock
                 THEN QKDClient_get_key(client, index, metadata_size, kind,
                                        cut, net)
                 ELSE [client EXCEPT !.op = "get_key", !.result = Raised]
        fits == Len(after.result.metadata) <= metadata_size
    IN
    /\ BridgeIdle
    /\ IF ~py_qkd_client_instance
       THEN BridgeReturn("get_key", QKD_STATUS_NO_CONNECTION, -1, FALSE,
                         FALSE, client, key_stream_id, key_buffer, metadata)
       ELSE IF ~client.made
       THEN BridgeReleased("get_key", outcome,
                           QKD_STATUS_PEER_NOT_CONNECTED_GET_KEY)
       ELSE IF after.result.raised
       THEN BridgeReturn("get_key", QKD_STATUS_PEER_NOT_CONNECTED_GET_KEY,
                         ServedStatus(after), FALSE, TRUE, after,
                         key_stream_id, key_buffer, metadata)
       ELSE BridgeReturn("get_key",
                         IF fits THEN after.result.status
                         ELSE QKD_STATUS_METADATA_SIZE_INSUFFICIENT,
                         ServedStatus(after), FALSE, TRUE, after,
                         key_stream_id, after.result.key_material,
                         IF fits
                         THEN [Metadata_size |-> metadata_size,
                               Metadata_buffer |-> after.result.metadata]
                         ELSE metadata)

\* python_client_close of the embedded client
embedded_close(kind, cut, net, outcome) ==
    LET after == IF client.made /\ client.sock
                 THEN QKDClient_close(client, kind, cut, net)
                 ELSE [client EXCEPT !.op = "close", !.result = Raised]
    IN
    /\ BridgeIdle
    /\ IF ~py_qkd_client_instance
       THEN BridgeReturn("close", QKD_STATUS_NO_CONNECTION, -1, FALSE,
                         FALSE, client, key_stream_id, key_buffer, metadata)
       ELSE IF ~client.made
       THEN BridgeReleased("close", outcome, QKD_STATUS_PEER_NOT_CONNECTED)
       ELSE IF after.result.raised
       THEN BridgeReturn("close", QKD_STATUS_PEER_NOT_CONNECTED,
                         ServedStatus(after), FALSE, TRUE, after,
                         key_stream_id, key_buffer, metadata)
       ELSE BridgeReturn("close", after.result.status, ServedStatus(after),
                         FALSE, finalize_python.instance,
                         finalize_python.object, key_stream_id, key_buffer,
                         metadata)

EmbeddedOpenConnect ==
    \E s \in Uris, d \in BridgeDests, q \in BridgeQos, b \in BootInputs,
       c \in {"ok", "refused"}, k \in BridgeKinds, x \in BridgeCuts,
       n \in BridgeNets :
        embedded_open_connect(s, d, q, b, c, k, x, n)
EmbeddedGetKey ==
    \E i \in 0..1, m \in {0, 1024}, k \in KindInputs, x \in CutInputs,
       n \in BridgeNets, o \in OutcomeInputs :
        embedded_get_key(i, m, k, x, n, o)
EmbeddedClose ==
    \E k \in KindInputs, x \in CutInputs, n \in BridgeNets,
       o \in OutcomeInputs :
        embedded_close(k, x, n, o)
\* the caller has looked at the outcome
EmbeddedDone ==
    /\ backend = PythonClient
    /\ call.op # "none"
    /\ ~faulted
    /\ call' = NoBridgeCall
    /\ client' = IF client.made
                 THEN [NewClient(client.qos) EXCEPT
                          !.key_stream_id = client.key_stream_id,
                          !.sock = client.sock]
                 ELSE client
    /\ UNCHANGED <<ret, status, faulted, py_qkd_client_instance,
                   key_stream_id, key_buffer, metadata>>
    /\ BridgeUnchanged

InitBridge ==
    /\ backend = PythonClient
    /\ streams = [i \in Slots |-> ZeroStream]
    /\ now = 0
    /\ faulted = FALSE
    /\ call = NoBridgeCall
    /\ ret = Unset
    /\ status = Unset
    /\ key_stream_id = ZeroUuid
    /\ key_buffer = Unwritten
    /\ metadata = NoMeta
    /\ seen = NoSeen
    /\ py_qkd_client_instance = FALSE
    /\ key_store = <<>>
    /\ container = NoContainer
    /\ kme_status = NoStatus
    /\ QKD_DEBUG_LEVEL = 0
    /\ environ = NoEnviron
    /\ request_sent = NoRequest
    /\ retrieved = NoRetrieved
    /\ client = NoClient
    /\ callers = NoCallers

NextBridge ==
    \/ EmbeddedOpenConnect
    \/ EmbeddedGetKey
    \/ EmbeddedClose
    \/ EmbeddedDone

SpecBridge == InitBridge /\ [][NextBridge]_vars

\* ---- admission arithmetic at the width of the C types (part_005:96-105)
\* A uint32_t or uint64_t is a sequence of 4 or 8 bytes, least significant
\* first, so that products wrap as they do in C.
RECURSIVE Limbs(_, _)
Limbs(n, k) == IF k = 0 THEN <<>> ELSE <<n % 256>> \o Limbs(n \div 256, k - 1)
Limb(a, i) == IF i >= 1 /\ i <= Len(a) THEN a[i] ELSE 0
RECURSIVE Column(_, _, _, _)
Column(a, b, c, i) ==
    IF i > c THEN 0
    ELSE Limb(a, i) * Limb(b, c + 1 - i) + Column(a, b, c, i + 1)
RECURSIVE MulFrom(_, _, _, _, _)
MulFrom(a, b, c, k, carry) ==
    IF c > k THEN <<>>
    ELSE LET t == Column(a, b, c, 1) + carry
         IN <<t % 256>> \o MulFrom(a, b, c + 1, k, t \div 256)
\* a * b modulo 256^k
Mul(a, b, k) == MulFrom(a, b, 1, k, 0)
RECURSIVE SubFrom(_, _, _, _)
SubFrom(a, b, i, borrow) ==
    IF i > Len(a) THEN <<>>
    ELSE LET t == Limb(a, i) - Limb(b, i) - borrow
         IN <<t % 256>> \o SubFrom(a, b, i + 1, IF t < 0 THEN 1 ELSE 0)
\* a - b modulo 256^Len(a)
Sub(a, b) == SubFrom(a, b, 1, 0)
RECURSIVE DivFrom(_, _, _, _)
DivFrom(n, d, i, rem) ==
    IF i = 0 THEN <<>>
    ELSE LET cur == rem * 256 + n[i]
         IN DivFrom(n, d, i - 1, cur % d) \o <<cur \div d>>
\* n / d for a divisor below 2^23
Div(n, d) == DivFrom(n, d, Len(n), 0)
RECURSIVE Value(_, _)
Value(a, i) == IF i > Len(a) THEN 0 ELSE a[i] + 256 * Value(a, i + 1)
IsZero(a) == \A i \in 1..Len(a) : a[i] = 0
\* a < b, for two byte sequences of one length
RECURSIVE LimbLess(_, _, _)
LimbLess(a, b, i) ==
    IF i = 0 THEN FALSE
    ELSE IF a[i] # b[i] THEN a[i] < b[i]
    ELSE LimbLess(a, b, i - 1)

\* 8000 * stream->qos.Key_chunk_size, an unsigned 32-bit product
divisor_u32(qos) == Mul(Limbs(8000, 4), qos.Key_chunk_size, 4)
\* the same product without the 32-bit wrap
divisor_exact(qos) == Mul(Limbs(8000, 4), qos.Key_chunk_size, 8)
\* (elapsed_ms * Max_bps) / (8000 * Key_chunk_size), an unsigned 64-bit
\* value, for a divisor that is not zero
max_possible_keys_u64(qos, elapsed_ms) ==
    Div(Mul(elapsed_ms, qos.Max_bps, 8), Value(divisor_u32(qos), 1))
\* requested_index < max_possible_keys
can_generate_key_u64(qos, elapsed_ms, requested_index) ==
    LET m == max_possible_keys_u64(qos, elapsed_ms)
    IN \/ \E i \in 4..8 : m[i] # 0
       \/ requested_index < Value(SubSeq(m, 1, 3), 1)

\* QoS records a caller passes, with every field a uint32_t: the test QoS;
\* chunk size 0; a chunk size whose product with 8000 wraps to 704 and one
\* whose product wraps to 0; a rate of 2^31 bit/s; a minimum rate above the
\* maximum
WideQos(chunk, max_bps, min_bps) ==
    [Key_chunk_size |-> chunk, Max_bps |-> max_bps, Min_bps |-> min_bps]
AdmitQos ==
    {WideQos(Limbs(32, 4), Limbs(1000, 4), Limbs(100, 4)),
     WideQos(Limbs(0, 4), Limbs(1000, 4), Limbs(100, 4)),
     WideQos(Limbs(536871, 4), Limbs(1000, 4), Limbs(100, 4)),
     WideQos(Limbs(536870912, 4), Limbs(1000, 4), Limbs(100, 4)),
     WideQos(Limbs(32, 4), <<0, 0, 0, 128>>, Limbs(100, 4)),
     WideQos(Limbs(32, 4), Limbs(1000, 4), Limbs(2000, 4))}
\* the times at which something happens, in milliseconds: 0, 1 s, 2 s and
\* 2^33 ms (99 days)
AdmitTimes ==
    <<Limbs(0, 8), Limbs(1000, 8), Limbs(2000, 8), <<0, 0, 0, 0, 2, 0, 0, 0>>>>
NoSession == [in_use |-> FALSE, qos |-> WideQos(Limbs(0, 4), Limbs(0, 4),
                                                 Limbs(0, 4)),
              creation_time |-> 1]
NoAdmitCall == [op |-> "none", index |-> 0]
elapsed_ms_u64(stream, t) ==
    Sub(AdmitTimes[t], AdmitTimes[stream.creation_time])
AdmitUnchanged ==
    UNCHANGED <<backend, status, key_stream_id, key_buffer, metadata, rest>>

\* the QoS handling of sim_open_connect: the record is copied into the slot
\* and only then compared (part_005:151-162)
AdmitOpenConnect(qos) ==
    /\ call.op = "none"
    /\ ~faulted
    /\ ~streams.in_use
    /\ streams' = [in_use |-> TRUE, qos |-> qos, creation_time |-> now]
    /\ ret' = IF LimbLess(qos.Max_bps, qos.Min_bps, 4)
              THEN QKD_STATUS_QOS_NOT_MET
              ELSE QKD_STATUS_PEER_DISCONNECTED
    /\ call' = [op |-> "open_connect", index |-> 0]
    /\ seen' = {}
    /\ UNCHANGED <<now, faulted>>
    /\ AdmitUnchanged
\* the admission test of sim_get_key: a division by zero ends the process
AdmitGetKey(index) ==
    /\ call.op = "none"
    /\ ~faulted
    /\ streams.in_use
    /\ call' = [op |-> "get_key", index |-> index]
    /\ IF IsZero(divisor_u32(streams.qos))
       THEN faulted' = TRUE /\ ret' = Unset /\ seen' = seen
       ELSE /\ faulted' = FALSE
            /\ IF can_generate_key_u64(streams.qos,
                                       elapsed_ms_u64(streams, now), index)
               THEN ret' = QKD_STATUS_SUCCESS /\ seen' = seen \cup {index}
               ELSE ret' = QKD_STATUS_INSUFFICIENT_KEY /\ seen' = seen
    /\ UNCHANGED <<now, streams>>
    /\ AdmitUnchanged
\* the slot is freed
AdmitClose ==
    /\ call.op = "none"
    /\ ~faulted
    /\ streams.in_use
    /\ streams' = NoSession
    /\ seen' = {}
    /\ call' = [op |-> "close", index |-> 0]
    /\ ret' = QKD_STATUS_SUCCESS
    /\ UNCHANGED <<now, faulted>>
    /\ AdmitUnchanged
AdmitTick ==
    /\ call.op = "none"
    /\ ~faulted
    /\ now < Len(AdmitTimes)
    /\ now' = now + 1
    /\ UNCHANGED <<streams, seen, call, ret, faulted>>
    /\ AdmitUnchanged
AdmitReturn ==
    /\ call.op # "none"
    /\ ~faulted
    /\ call' = NoAdmitCall
    /\ UNCHANGED <<streams, seen, now, ret, faulted>>
    /\ AdmitUnchanged
AdmitOpen == \E q \in AdmitQos : AdmitOpenConnect(q)
AdmitGet == \E i \in 0..MaxIndex : AdmitGetKey(i)

InitAdmit ==
    /\ backend = Legacy
    /\ streams = NoSession
    /\ now = 1
    /\ faulted = FALSE
    /\ call = NoAdmitCall
    /\ ret = Unset
    /\ status = Unset
    /\ key_stream_id = ZeroKsid
    /\ key_buffer = Unwritten
    /\ metadata = NoMeta
    /\ seen = {}
    /\ py_qkd_client_instance = FALSE
    /\ key_store = <<>>
    /\ container = NoContainer
    /\ kme_status = NoStatus
    /\ QKD_DEBUG_LEVEL = 0
    /\ environ = NoEnviron
    /\ request_sent = NoRequest
    /\ retrieved = NoRetrieved
    /\ client = NoClient
    /\ callers = NoCallers

NextAdmit ==
    \/ AdmitOpen
    \/ AdmitGet
    \/ AdmitClose
    \/ AdmitTick
    \/ AdmitReturn

SpecAdmit == InitAdmit /\ [][NextAdmit]_vars

\* ---- the dec_keys request body (qkd_etsi014_backend.c:207-226, 283-300)
\* Strings are sequences of character codes.
\* largest number of key IDs in one request that is explored
MaxIds == 21
POST_BUFFER_SIZE == 1024
ENTRY_SIZE == 128
ENTRY_SIZE_QUKAYDEE == 256
\* {"key_IDs":[   {"key_ID":"   ","master_SAE_ID":"   "}   ,   ]}
BodyOpen == <<123, 34, 107, 101, 121, 95, 73, 68, 115, 34, 58, 91>>
EntryOpen == <<123, 34, 107, 101, 121, 95, 73, 68, 34, 58, 34>>
EntryMaster == 
    <<34, 44, 34, 109, 97, 115, 116, 101, 114,
      95, 83, 65, 69, 95, 73, 68, 34, 58, 34>>
EntryClose == <<34, 125>>
Comma == <<44>>
BodyClose == <<93, 125>>
MasterSaeId == <<115, 97, 101>>
\* snprintf(buffer, size, ...): at most size - 1 characters are kept
snprintf(size, text) ==
    IF Len(text) < size THEN text ELSE SubSeq(text, 1, size - 1)
\* the i-th of the requested IDs: length characters, told apart by the first
RequestedId(i, length) == <<64 + i>> \o [j \in 1..(length - 1) |-> 97]
IdLengths == {36, 114, 115}
\* the entry the loop formats for one ID, as meant and as snprintf leaves it
entry_text(id, qukaydee) ==
    IF qukaydee
    THEN EntryOpen \o id \o EntryMaster \o MasterSaeId \o EntryClose
    ELSE EntryOpen \o id \o EntryClose
key_id_entry(id, qukaydee) ==
    snprintf(IF qukaydee THEN ENTRY_SIZE_QUKAYDEE ELSE ENTRY_SIZE,
             entry_text(id, qukaydee))
RECURSIVE Entries(_, _, _, _)
Entries(i, count, length, qukaydee) ==
    IF i > count THEN <<>>
    ELSE key_id_entry(RequestedId(i, length), qukaydee)
         \o (IF i < count THEN Comma ELSE <<>>)
         \o Entries(i + 1, count, length, qukaydee)
\* what the strcat calls put together, and whether it fits the buffer with
\* its terminating NUL
build_post_data(count, length, qukaydee) ==
    LET text == BodyOpen \o Entries(1, count, length, qukaydee) \o BodyClose
    IN [text |-> text, fits |-> Len(text) + 1 <= POST_BUFFER_SIZE]
\* the body the caller means: one {"key_ID": id} object per ID, in order
RECURSIVE Objects(_, _, _)
Objects(i, count, length) ==
    IF i > count THEN <<>>
    ELSE EntryOpen \o RequestedId(i, length) \o EntryClose
         \o (IF i < count THEN Comma ELSE <<>>)
         \o Objects(i + 1, count, length)
dec_keys_body(count, length) ==
    BodyOpen \o Objects(1, count, length) \o BodyClose

NoPostCall == [op |-> "none", count |-> 0, length |-> 36, qukaydee |-> FALSE]
NoPostData == [text |-> <<>>, fits |-> TRUE]
PostUnchanged ==
    UNCHANGED <<backend, streams, now, ret, status, key_stream_id,
                key_buffer, metadata, seen, py_qkd_client_instance,
                key_store, container, kme_status, QKD_DEBUG_LEVEL, environ,
                retrieved, client, callers>>
\* build_post_data applied to the key IDs of the request; strcat beyond the
\* end of the buffer either ends the process or goes unnoticed
BuildPostData(overrun) ==
    LET built == build_post_data(call.count, call.length, call.qukaydee)
    IN
    /\ backend = RestBackend
    /\ call.op = "request"
    /\ call' = [call EXCEPT !.op = "build_post_data"]
    /\ request_sent' = built
    /\ faulted' = (~built.fits /\ overrun = "fault")
    /\ PostUnchanged
PostOverruns ==
    IF build_post_data(call.count, call.length, call.qukaydee).fits
    THEN {"unnoticed"} ELSE {"fault", "unnoticed"}
BuildPost == \E o \in PostOverruns : BuildPostData(o)
\* free(post_data), and the next request
NextRequest(count, length) ==
    /\ backend = RestBackend
    /\ call.op = "build_post_data"
    /\ ~faulted
    /\ call' = [op |-> "request", count |-> count, length |-> length,
                qukaydee |-> call.qukaydee]
    /\ request_sent' = NoPostData
    /\ UNCHANGED faulted
    /\ PostUnchanged
PostNext == \E n \in 0..MaxIds, l \in IdLengths : NextRequest(n, l)

InitPost ==
    /\ backend = RestBackend
    /\ streams = [i \in Slots |-> ZeroStream]
    /\ now = 0
    /\ faulted = FALSE
    /\ call \in [op : {"request"}, count : 0..MaxIds, length : IdLengths,
                 qukaydee : BOOLEAN]
    /\ ret = Unset
    /\ status = Unset
    /\ key_stream_id = ZeroKsid
    /\ key_buffer = Unwritten
    /\ metadata = NoMeta
    /\ seen = NoSeen
    /\ py_qkd_client_instance = FALSE
    /\ key_store = <<>>
    /\ container = NoContainer
    /\ kme_status = NoStatus
    /\ QKD_DEBUG_LEVEL = 0
    /\ environ = NoEnviron
    /\ request_sent = NoPostData
    /\ retrieved = NoRetrieved
    /\ client = NoClient
    /\ callers = NoCallers

NextPost ==
    \/ BuildPost
    \/ PostNext

SpecPost == InitPost /\ [][NextPost]_vars

\* ---- sim_open_connect of the older engine entered by two threads at once
\* the table is a file-scope array with no lock of its own: the threads'
\* statements interleave unless the callers bring a mutex
Threads == {"A", "B"}
NoSlot == -1
IdleCaller == [pc |-> "idle", slot |-> NoSlot, ksid |-> ZeroKsid,
               qos |-> ZeroQos, is_initiator |-> FALSE, ret |-> Unset]
RaceKsids == {ZeroKsid, PeerKsid, test_key_uuid}
Release(t) == IF callers.mutex = t THEN "free" ELSE callers.mutex

\* up to the choice of the slot: find_stream for a responder, then
\* allocate_stream (part_005:119-138, the allocation at 129 or 138)
OpenSelect(t, qos, ksid) ==
    LET is_initiator == (ksid[1] = 0)
        found == find_stream(streams, ksid)
        slot == allocate_stream(streams)
        leave(r) == [callers EXCEPT !.thread[t] =
                        [pc |-> "returned", slot |-> NoSlot, ksid |-> ksid,
                         qos |-> qos, is_initiator |-> is_initiator,
                         ret |-> r]]
    IN
    /\ backend = Legacy
    /\ callers # NoCallers
    /\ callers.thread[t].pc = "idle"
    /\ callers.mutex \in {"none", "free"}
    /\ callers' =
          IF ~is_initiator /\ found >= 0 THEN leave(QKD_STATUS_KSID_IN_USE)
          ELSE IF slot < 0 THEN leave(QKD_STATUS_NO_CONNECTION)
          ELSE [callers EXCEPT
                  !.mutex = IF @ = "free" THEN t ELSE @,
                  !.thread[t] =
                      [pc |-> "selected", slot |-> slot, ksid |-> ksid,
                       qos |-> qos, is_initiator |-> is_initiator,
                       ret |-> Unset]]
    /\ UNCHANGED <<rest_but_callers, backend, streams, now, faulted, call,
                   ret, status, key_stream_id, key_buffer, metadata, seen>>

\* the KSID and the role are written into the slot chosen (131-132, 140-142)
OpenIdentify(t) ==
    LET me == callers.thread[t] IN
    /\ callers # NoCallers
    /\ me.pc = "selected"
    /\ streams' = [streams EXCEPT ![me.slot] =
                      [@ EXCEPT !.key_id = IF me.is_initiator
                                           THEN test_key_uuid ELSE me.ksid,
                                !.is_initiator = me.is_initiator]]
    /\ callers' = [callers EXCEPT
                      !.thread[t].pc = "identified",
                      !.thread[t].ksid = IF me.is_initiator
                                         THEN test_key_uuid ELSE me.ksid]
    /\ UNCHANGED <<rest_but_callers, backend, now, faulted, call, ret,
                   status, key_stream_id, key_buffer, metadata, seen>>

\* the slot is taken into use and filled, the QoS checked (151-164)
OpenInitialize(t) ==
    LET me == callers.thread[t] IN
    /\ callers # NoCallers
    /\ me.pc = "identified"
    /\ streams' = [streams EXCEPT ![me.slot] =
                      [@ EXCEPT !.in_use = TRUE,
                                !.last_index = 0,
                                !.creation_time = now,
                                !.num_keys = 0,
                                !.qos = me.qos]]
    /\ callers' = [callers EXCEPT
                      !.mutex = Release(t),
                      !.thread[t].pc = "returned",
                      !.thread[t].ret =
                          IF me.qos.Min_bps > me.qos.Max_bps
                          THEN QKD_STATUS_QOS_NOT_MET
                          ELSE IF me.is_initiator
                          THEN QKD_STATUS_PEER_DISCONNECTED
                          ELSE QKD_STATUS_SUCCESS]
    /\ UNCHANGED <<rest_but_callers, backend, now, faulted, call, ret,
                   status, key_stream_id, key_buffer, metadata, seen>>

\* the thread has looked at what its call returned
CallerDone(t) ==
    /\ callers # NoCallers
    /\ callers.thread[t].pc = "returned"
    /\ callers' = [callers EXCEPT !.thread[t] = IdleCaller]
    /\ UNCHANGED <<rest_but_callers, backend, streams, now, faulted, call,
                   ret, status, key_stream_id, key_buffer, metadata, seen>>

Select == \E t \in Threads, q \in QosInputs, k \in RaceKsids :
             OpenSelect(t, q, k)
Identify == \E t \in Threads : OpenIdentify(t)
Initialize == \E t \in Threads : OpenInitialize(t)
Done == \E t \in Threads : CallerDone(t)

InitRace ==
    /\ backend = Legacy
    /\ streams = [i \in Slots |-> ZeroStream]
    /\ now = 0
    /\ faulted = FALSE
    /\ call = NoCall
    /\ ret = Unset
    /\ status = Unset
    /\ key_stream_id = ZeroKsid
    /\ key_buffer = Unwritten
    /\ metadata = NoMeta
    /\ seen = NoSeen
    /\ py_qkd_client_instance = FALSE
    /\ key_store = <<>>
    /\ container = NoContainer
    /\ kme_status = NoStatus
    /\ QKD_DEBUG_LEVEL = 0
    /\ environ = NoEnviron
    /\ request_sent = NoRequest
    /\ retrieved = NoRetrieved
    /\ client = NoClient
    /\ callers \in {[mutex |-> m, thread |-> [t \in Threads |-> IdleCaller]] :
                       m \in {"none", "free"}}

NextRace ==
    \/ Select
    \/ Identify
    \/ Initialize
    \/ Done

SpecRace == InitRace /\ [][NextRace]_vars

\* ------------------- Legacy engine, sessions that differ in Timeout only
\* the QoS of the tests and the same QoS with a Timeout of one millisecond
short_timeout_qos == [test_qos EXCEPT !.Timeout = 1]
TimeoutQosInputs == {test_qos, short_timeout_qos}
TimeoutOpenArgs == {"valid"} \X TimeoutQosInputs \X {ZeroKsid, PeerKsid}

TimeoutOpenConnect ==
    \E x \in TimeoutOpenArgs : sim_open_connect(x[1], x[2], x[3])
TimeoutGetKey ==
    \E x \in GetKeyArgs :
        x[1] = "valid" /\ x[4] = 0 /\ sim_get_key(x[1], x[2], x[3], x[4])
TimeoutClose ==
    \E x \in CloseArgs : x[1] = "valid" /\ sim_close(x[1], x[2])

NextTimeout ==
    \/ TimeoutOpenConnect
    \/ TimeoutGetKey
    \/ TimeoutClose
    \/ Return
    \/ Tick

SpecTimeout == Init /\ [][NextTimeout]_vars

\* ============================================================ claims
\* the step is a call of operation op with every argument present
CallStep(op) == Idle /\ call'.op = op /\ call'.args = "valid"
\* the last call was operation op with every argument present
Returned(op) == call.op = op /\ call.args = "valid" /\ ~faulted
\* age of a session in milliseconds at time t
Age(stream, t) == t - stream.creation_time
InitiatorSessions(tbl) == {s \in Slots : tbl[s].in_use /\ tbl[s].is_initiator}

\* C1: while the session an initiator OPEN_CONNECT allocated is in the table,
\* every OPEN_CONNECT presenting the KSID that was written back returns
\* KSID_IN_USE (return value and *status) and leaves the table as it was.
C1_KsidInUse ==
    [][(CallStep("open_connect") /\
        \E s \in InitiatorSessions(streams) :
            streams[s].key_id = call'.ksid /\ call'.ksid # ZeroKsid)
       => (/\ ret' = QKD_STATUS_KSID_IN_USE
           /\ status' = QKD_STATUS_KSID_IN_USE
           /\ streams' = streams)]_vars

\* C2: GET_KEY on a session found in the table returns INSUFFICIENT_KEY
\* exactly when the index is greater than
\* floor(elapsed_ms * Max_bps / (8000 * Key_chunk_size)); an index equal to
\* that bound, and index 0 on a session just opened, is served.
C2_AdmissionBound ==
    (backend = Legacy /\ Returned("get_key")
        /\ find_stream(streams, call.ksid) >= 0)
    => LET stream == streams[find_stream(streams, call.ksid)]
           bound == (Age(stream, now) * stream.qos.Max_bps)
                        \div (8000 * stream.qos.Key_chunk_size)
       IN (ret = QKD_STATUS_INSUFFICIENT_KEY) <=> (call.index > bound)

\* C3: any two GET_KEY calls that were admitted deliver the same key material
\* when they ask for the same index and different key material when they ask
\* for different indexes (`seen` is any one earlier delivery).
C3_KeyDeterministic ==
    (Returned("get_key") /\ key_buffer # Unwritten /\ seen.index # Unset)
    => ((call.index = seen.index) <=> (key_buffer = seen.key))

\* two admitted GET_KEY calls with different indexes have been made
C3_Witness ==
    /\ Returned("get_key")
    /\ ret = QKD_STATUS_SUCCESS
    /\ key_buffer # Unwritten
    /\ seen.index # Unset
    /\ seen.index # call.index

\* the session's TTL (seconds) has not elapsed at time t
BeforeTTL(stream, t) == Age(stream, t) < stream.qos.TTL * 1000
Times == {n * TickMs : n \in 0..MaxTicks}
\* what GET_KEY of the active backend returns and delivers on table tbl
get_key_outcome(tbl, ksid, index, meta, t) ==
    IF backend = Legacy THEN sim_get_key_outcome(tbl, ksid, index, meta, t)
                        ELSE etsi004_sim_get_key_outcome(tbl, ksid, index, t)

\* C4: CLOSE on a session found in the table returns SUCCESS; before the TTL
\* it sets pending-close and keeps the slot in use (every time it is
\* repeated); from the TTL on it clears the slot, the KSID is no longer found
\* and the slot can be allocated again.
C4_TwoPhaseClose ==
    [][(CallStep("close") /\ find_stream(streams, call'.ksid) >= 0)
       => LET slot == find_stream(streams, call'.ksid) IN
          /\ ret' = QKD_STATUS_SUCCESS
          /\ status' = QKD_STATUS_SUCCESS
          /\ IF BeforeTTL(streams[slot], now)
             THEN /\ streams'[slot].in_use
                  /\ streams'[slot].pending_close
                  /\ find_stream(streams', call'.ksid) = slot
             ELSE /\ ~streams'[slot].in_use
                  /\ find_stream(streams', call'.ksid) = -1
                  /\ allocate_stream(streams') >= 0]_vars

\* C5: a CLOSE made before the TTL leaves the session queryable: at every
\* time before the TTL elapses GET_KEY with that KSID returns the status and
\* the key material it would have returned had CLOSE not been called.
C5_QueryableAfterEarlyClose ==
    [][(/\ CallStep("close")
        /\ find_stream(streams, call'.ksid) >= 0
        /\ BeforeTTL(streams[find_stream(streams, call'.ksid)], now))
       => \A i \in 0..MaxIndex, m \in MetaSizes, t \in Times :
            (t >= now /\ BeforeTTL(streams[find_stream(streams, call'.ksid)], t))
            => get_key_outcome(streams', call'.ksid, i, m, t)
                 = get_key_outcome(streams, call'.ksid, i, m, t)]_vars

\* C6: once the age of a soft-closed session has reached its TTL, a GET_KEY
\* presenting its KSID no longer returns SUCCESS.
C6_HardFreedAtTTL ==
    (Returned("get_key") /\ find_stream(streams, call.ksid) >= 0)
    => LET stream == streams[find_stream(streams, call.ksid)] IN
       (stream.pending_close /\ ~BeforeTTL(stream, now))
           => ret # QKD_STATUS_SUCCESS

Full(tbl) == \A s \in Slots : tbl[s].in_use
Expired(tbl, t) == \E s \in Slots : tbl[s].in_use /\ ~BeforeTTL(tbl[s], t)
\* the request asks for a new session: initiator, or a KSID not in the table
NewSession(tbl, ksid) == ksid = ZeroKsid \/ find_stream(tbl, ksid) < 0

\* C7: with every slot in use an OPEN_CONNECT for a new session returns
\* NO_CONNECTION and changes no slot, until the TTL of one of the sessions
\* has expired: then it obtains a slot and does not return NO_CONNECTION.
C7_CapacityAndTTL ==
    [][(/\ backend = Legacy
        /\ CallStep("open_connect")
        /\ NewSession(streams, call'.ksid)
        /\ Full(streams))
       => IF Expired(streams, now)
          THEN ret' # QKD_STATUS_NO_CONNECTION /\ streams' # streams
          ELSE ret' = QKD_STATUS_NO_CONNECTION /\ streams' = streams]_vars

\* C8: OPEN_CONNECT with Min_bps > Max_bps returns QOS_NOT_MET in the return
\* value and in *status, whatever the KSID and the occupancy of the table.
C8_QosNotMet ==
    (Returned("open_connect") /\ call.qos.Min_bps > call.qos.Max_bps)
    => (ret = QKD_STATUS_QOS_NOT_MET /\ status = QKD_STATUS_QOS_NOT_MET)

\* C9: an OPEN_CONNECT with valid QoS that allocates a session returns
\* PEER_DISCONNECTED to an initiator request (all-zero KSID) and SUCCESS to a
\* responder request, and writes the same code to *status.
C9_OpenResult ==
    [][(/\ CallStep("open_connect")
        /\ call'.qos.Min_bps <= call'.qos.Max_bps
        /\ \E s \in Slots : ~streams[s].in_use /\ streams'[s].in_use)
       => /\ ret' = IF call'.ksid = ZeroKsid
                    THEN QKD_STATUS_PEER_DISCONNECTED
                    ELSE QKD_STATUS_SUCCESS
          /\ status' = ret']_vars

\* C10: while an initiator session is waiting for its peer, the first
\* responder OPEN_CONNECT presenting its KSID returns SUCCESS; once a
\* responder session with that KSID is connected too, a further OPEN_CONNECT
\* with the KSID returns KSID_IN_USE.
C10_PeerJoins ==
    [][(/\ backend = Legacy
        /\ CallStep("open_connect")
        /\ call'.ksid # ZeroKsid
        /\ call'.qos.Min_bps <= call'.qos.Max_bps
        /\ \E s \in InitiatorSessions(streams) :
               streams[s].key_id = call'.ksid)
       => IF \E r \in Slots : /\ streams[r].in_use
                              /\ ~streams[r].is_initiator
                              /\ streams[r].key_id = call'.ksid
          THEN ret' = QKD_STATUS_KSID_IN_USE
          ELSE ret' = QKD_STATUS_SUCCESS]_vars

\* C11: GET_KEY with every argument present and a KSID that matches no
\* in-use session returns PEER_NOT_CONNECTED_GET_KEY (3) in the return value
\* and in *status and changes no session.
C11_UnknownKsid ==
    [][(CallStep("get_key") /\ find_stream(streams, call'.ksid) < 0)
       => (/\ ret' = QKD_STATUS_PEER_NOT_CONNECTED_GET_KEY
           /\ status' = QKD_STATUS_PEER_NOT_CONNECTED_GET_KEY
           /\ streams' = streams)]_vars

\* C12: OPEN_CONNECT, GET_KEY and CLOSE called with a required argument
\* missing (the status pointer included) return NO_CONNECTION, do not fault
\* and leave every slot of the session table unchanged.
C12_MissingArguments ==
    [][(Idle /\ call'.op # "none" /\ call'.args # "valid")
       => (/\ ~faulted'
           /\ ret' = QKD_STATUS_NO_CONNECTION
           /\ streams' = streams)]_vars

\* C13: whenever the status pointer is not NULL, the value an operation
\* returns is the value it leaves in *status.
C13_ReturnEqualsStatus ==
    (call.op # "none" /\ call.args # "null_status" /\ ~faulted)
    => ret = status

\* C14: with no backend active (or the operation missing from the Vault
\* backend) an entry point given its arguments returns the no-backend
\* error - NO_CONNECTION for Stream operations, also in *status when it is
\* not NULL, SERVER_ERROR for Vault operations - and does not fault on the
\* missing backend.
C14_NoBackend ==
    [][(/\ Idle
        /\ call'.op # "none"
        /\ call'.args # "null_arg"
        /\ backend \in {NoBackend, EmptyBackend})
       => /\ ~faulted'
          /\ IF call'.op \in {"open_connect", "get_key", "close"}
             THEN /\ ret' = QKD_STATUS_NO_CONNECTION
                  /\ call'.args = "valid"
                        => status' = QKD_STATUS_NO_CONNECTION
             ELSE ret' = QKD_STATUS_SERVER_ERROR]_vars

\* C20: a Vault GET_KEY asking for N >= 1 keys that returns OK delivers
\* key_count = N entries, each with an identifier and key material, the N
\* identifiers pairwise distinct.
C20_NumberOfKeys ==
    (/\ call.op = "GET_KEY"
     /\ call.args = "valid"
     /\ call.number >= 1
     /\ ~faulted
     /\ ret = QKD_STATUS_OK)
    => /\ container.key_count = call.number
       /\ Len(container.keys) = call.number
       /\ \A i \in 1..Len(container.keys) :
             /\ container.keys[i].key_ID # NullString
             /\ container.keys[i].key # NullString
       /\ \A i, j \in 1..Len(container.keys) :
             i # j => container.keys[i].key_ID # container.keys[j].key_ID

\* C15: no two in-use sessions of the table ever carry the same KSID.
C15_DistinctKsids ==
    \A i, j \in Slots :
        (i # j /\ streams[i].in_use /\ streams[j].in_use)
            => streams[i].key_id # streams[j].key_id

\* C16: OPEN_CONNECT given a KSID with a non-zero byte handles a responder
\* request: the caller's buffer still holds the KSID it gave, and a session
\* it admits is a responder session stored under that KSID.
C16_ResponderKsidKept ==
    [][(CallStep("open_connect") /\ call'.ksid # ZeroKsid /\ ~faulted')
       => /\ key_stream_id' = call'.ksid
          /\ \A i \in Slots :
                (streams'[i] # streams[i] /\ streams'[i].in_use)
                    => /\ streams'[i].key_id = call'.ksid
                       /\ ~streams'[i].is_initiator]_vars

\* C17: a GET_KEY that gets as far as the metadata, given a metadata
\* capacity c > 0: when c is smaller than the metadata to deliver it
\* returns the metadata-size error, reports the size needed in
\* Metadata_size and leaves the buffer unwritten; otherwise it returns
\* SUCCESS with the buffer filled and Metadata_size within c.
C17_MetadataCapacity ==
    (/\ Returned("get_key")
     /\ call.meta > 0
     /\ ret \in {QKD_STATUS_SUCCESS, QKD_STATUS_METADATA_SIZE_ERROR})
    => IF metadata.Metadata_buffer = Unwritten
       THEN /\ ret = QKD_STATUS_METADATA_SIZE_ERROR
            /\ metadata.Metadata_size > call.meta
       ELSE /\ ret = QKD_STATUS_SUCCESS
            /\ metadata.Metadata_size <= call.meta

EraseTimeout(qos) == [qos EXCEPT !.Timeout = 0]
EraseTimeouts(tbl) ==
    [i \in Slots |-> [tbl[i] EXCEPT !.qos = EraseTimeout(tbl[i].qos)]]

\* C19: the Timeout of the QoS is not enforced: every operation returns the
\* status, KSID and key, and leaves the table, that it would with every
\* Timeout of the request and of the table replaced by zero, and no
\* operation returns TIMEOUT.
C19_TimeoutNotEnforced ==
    [][(Idle /\ call'.op # "none" /\ call'.args = "valid" /\ ~faulted')
       => /\ ret' # QKD_STATUS_TIMEOUT
          /\ status' = ret'
          /\ CASE call'.op = "open_connect" ->
                    LET o == sim_open_connect_outcome(EraseTimeouts(streams),
                                 EraseTimeout(call'.qos), call'.ksid, now)
                    IN /\ ret' = o.ret
                       /\ key_stream_id' = o.key_stream_id
                       /\ key_buffer' = Unwritten
                       /\ EraseTimeouts(streams') = o.streams
               [] call'.op = "get_key" ->
                    LET o == sim_get_key_outcome(EraseTimeouts(streams),
                                 call'.ksid, call'.index, call'.meta, now)
                        slot == find_stream(streams, call'.ksid)
                    IN /\ ret' = o.ret
                       /\ key_buffer' = o.key_buffer
                       /\ streams' = IF o.key_buffer = Unwritten THEN streams
                                     ELSE [streams EXCEPT
                                             ![slot].last_index = call'.index]
               [] call'.op = "close" ->
                    LET o == sim_close_outcome(EraseTimeouts(streams),
                                               call'.ksid, now)
                    IN /\ ret' = o.ret
                       /\ key_buffer' = Unwritten
                       /\ EraseTimeouts(streams') = o.streams]_vars

\* a key has been delivered on a session whose Timeout had run out since it
\* was opened, while the table holds a session with another Timeout
C19_Witness ==
    /\ Returned("get_key")
    /\ ret = QKD_STATUS_SUCCESS
    /\ key_buffer # Unwritten
    /\ LET slot == find_stream(streams, call.ksid) IN
          /\ slot >= 0
          /\ streams[slot].qos.Timeout <= now - streams[slot].creation_time
          /\ \E j \in Slots :
                /\ streams[j].in_use
                /\ streams[j].qos.Timeout # streams[slot].qos.Timeout

\* C21: no Vault retrieval hands back a half-populated container: after a
\* GET_KEY or GET_KEY_WITH_IDS that did not return OK the container is
\* empty, and after one that returned OK each of its key_count entries has
\* an identifier and key material.
C21_NoHalfPopulated ==
    (/\ call.op \in {"GET_KEY", "GET_KEY_WITH_IDS"}
     /\ call.args = "valid"
     /\ ~faulted)
    => IF ret # QKD_STATUS_OK
       THEN container = NoContainer
       ELSE /\ Len(container.keys) = container.key_count
            /\ \A i \in 1..Len(container.keys) :
                  /\ container.keys[i].key_ID # NullString
                  /\ container.keys[i].key_ID # Uninitialized
                  /\ container.keys[i].key # NullString
                  /\ container.keys[i].key # Uninitialized

\* C22: a GET_KEY_WITH_IDS that returns OK yields one entry per requested
\* ID, in request order: entry i carries requested ID i and the key
\* material GET_KEY delivered under that ID.
C22_EntryPerRequestedId ==
    (/\ call.op = "GET_KEY_WITH_IDS"
     /\ call.args = "valid"
     /\ ~faulted
     /\ ret = QKD_STATUS_OK)
    => /\ container.key_count = Len(call.ids)
       /\ Len(container.keys) = Len(call.ids)
       /\ \A i \in 1..Len(container.keys) :
             /\ container.keys[i].key_ID = call.ids[i]
             /\ \E j \in 1..Len(key_store) :
                   /\ key_store[j].key_id = call.ids[i]
                   /\ key_store[j].key = container.keys[i].key

C24_ArgumentsFirst ==
    [][(/\ Idle
        /\ call'.op \in {"GET_STATUS", "GET_KEY", "GET_KEY_WITH_IDS"}
        /\ call'.args = "null_arg")
       => /\ ~faulted'
          /\ ret' = QKD_STATUS_BAD_REQUEST
          /\ container' = container
          /\ kme_status' = kme_status
          /\ key_store' = key_store
          /\ request_sent' = request_sent]_vars

\* C25: a call of the REST backend whose exchange failed returns
\* SERVER_ERROR when the HTTP response code is 500 or more, BAD_REQUEST for
\* every other failing code, and SERVER_ERROR when the transport failed
\* without any HTTP response.
C25_StatusMapping ==
    (/\ backend = RestBackend
     /\ call.op \in {"GET_STATUS", "GET_KEY", "GET_KEY_WITH_IDS"}
     /\ request_sent # NoRequest
     /\ ~faulted)
    => /\ request_sent.res = "failed" => ret = QKD_STATUS_SERVER_ERROR
       /\ (request_sent.res = "http" /\ request_sent.http_code >= 500)
             => ret = QKD_STATUS_SERVER_ERROR
       /\ (/\ request_sent.res = "http"
           /\ request_sent.http_code >= 400
           /\ request_sent.http_code < 500)
             => ret = QKD_STATUS_BAD_REQUEST

\* the three variables the environment holds now for the role a Vault
\* operation acts in: responder for GET_KEY_WITH_IDS, initiator otherwise
RoleTriple(op) ==
    IF op = "GET_KEY_WITH_IDS" THEN environ.SLAVE ELSE environ.MASTER
Complete(triple) ==
    /\ triple.cert_path # NULL
    /\ triple.key_path # NULL
    /\ triple.ca_cert_path # NULL

ServiceCode(op) ==
    IF op = "open_connect" THEN 2 ELSE IF op = "get_key" THEN 4 ELSE 8

\* C27: every request the client builds is three version bytes, the service
\* code of its operation (0x02 OPEN_CONNECT, 0x04 GET_KEY, 0x08 CLOSE), a
\* 4-byte big-endian payload length and exactly that many payload bytes; and
\* recv_full_response returns a frame exactly when the 8 header bytes and
\* the payload_length bytes the header announces have arrived - the frame is
\* then those bytes - and raises otherwise.
C27_Framing ==
    (client.made /\ client.op \in {"open_connect", "get_key", "close"})
    => LET request == client.request
           incoming == client.incoming
           announced == unpack_I(Slice(incoming, 4, 8))
       IN /\ Len(request) >= 8
          /\ Slice(request, 0, 3) = VERSION
          /\ request[4] = ServiceCode(client.op)
          /\ unpack_I(Slice(request, 4, 8)) = Len(request) - 8
          /\ IF Len(incoming) >= 8 /\ Len(incoming) - 8 >= announced
             THEN /\ client.response.kind = "frame"
                  /\ client.response.frame = Slice(incoming, 0, 8 + announced)
             ELSE client.response.kind = "raised"

\* an OPEN_CONNECT whose response arrived whole and one cut inside its
\* payload have both been seen: here the one cut short, after the header
C27_Witness ==
    /\ client.made
    /\ client.op = "open_connect"
    /\ Len(client.request) > 8 + 16 + 28 + METADATA_MIMETYPE_SIZE
    /\ Len(client.incoming) > 8
    /\ Len(client.incoming) - 8 < unpack_I(Slice(client.incoming, 4, 8))
    /\ client.response.kind = "raised"

\* C28: decoding the block construct_qos makes of a QoS record gives back
\* the record's seven numbers and its mime type, and the block is always
\* 28 + 256 bytes long.
C28_QosRoundTrip ==
    (client.made /\ client.op \in {"construct_qos", "parse_qos"})
    => /\ Len(client.block) = 28 + 256
       /\ client.op = "parse_qos"
          => (~client.decoded.raised /\ client.decoded.qos = client.qos)

\* C29: every slot in use holds a QoS with Min_bps <= Max_bps, so that an
\* OPEN_CONNECT rejected with QOS_NOT_MET leaves no slot in use with the QoS
\* it rejected.
C29_QosOrdered ==
    backend = Legacy
    => \A i \in Slots :
          streams[i].in_use => streams[i].qos.Min_bps <= streams[i].qos.Max_bps

\* C30: a slot marked pending-close is in use; a session marked
\* pending-close stays so until its slot is freed, it never is in use
\* without the mark again; and a slot that OPEN_CONNECT takes into use starts
\* without the mark.
C30_SlotLifecycle ==
    /\ [](\A i \in Slots : streams[i].pending_close => streams[i].in_use)
    /\ [][\A i \in Slots :
            /\ (streams[i].in_use /\ streams[i].pending_close)
               => (streams'[i].pending_close \/ ~streams'[i].in_use)
            /\ (~streams[i].in_use /\ streams'[i].in_use)
               => ~streams'[i].pending_close]_vars

\* OPEN_CONNECT has just taken a slot into use while another session is
\* marked pending-close
C30_Witness ==
    /\ backend = Legacy
    /\ call.op = "open_connect"
    /\ ret \in {QKD_STATUS_SUCCESS, QKD_STATUS_PEER_DISCONNECTED}
    /\ \E i, j \in Slots :
          /\ streams[i].in_use /\ streams[i].pending_close
          /\ streams[j].in_use /\ ~streams[j].pending_close
          /\ streams[j].key_id = key_stream_id

\* C31: when the callers serialise their calls with a mutex, no two threads
\* hold the same slot from OPEN_CONNECT (whether inside the call or back from
\* it); without a mutex two calls can choose the same free slot and the
\* session of one is overwritten by the other's (reached: C31_Witness).
C31_SerialisedDistinctSlots ==
    (callers # NoCallers /\ callers.mutex # "none")
    => \A a, b \in Threads :
          (a # b /\ callers.thread[a].slot # NoSlot)
          => callers.thread[a].slot # callers.thread[b].slot

\* without a mutex both threads are back from OPEN_CONNECT with a status of
\* success, they were given the same slot, and the session of one of them is
\* not in the table
C31_Witness ==
    /\ callers # NoCallers
    /\ callers.mutex = "none"
    /\ \A t \in Threads :
          /\ callers.thread[t].pc = "returned"
          /\ callers.thread[t].ret = QKD_STATUS_SUCCESS
    /\ callers.thread["A"].slot = callers.thread["B"].slot
    /\ callers.thread["A"].slot # NoSlot
    /\ \E t \in Threads : find_stream(streams, callers.thread[t].ksid) < 0

\* the body of the response was decoded into what the caller passed
Decoded ==
    IF call.op = "GET_STATUS"
    THEN request_sent.json \in {"no keys array", "keys"}
    ELSE request_sent.parsed

\* C32: a call of the REST backend returns OK only when the response body
\* was decoded; a response of success whose body does not decode gives a
\* status that is not OK and is not the status a failed transport gives
\* (BAD_REQUEST for the body, not BAD_REQUEST for the transport).
C32_DecodeFailure ==
    (/\ backend = RestBackend
     /\ call.op \in {"GET_STATUS", "GET_KEY", "GET_KEY_WITH_IDS"}
     /\ request_sent # NoRequest
     /\ ~faulted)
    => /\ ret = QKD_STATUS_OK => Decoded
       /\ (/\ request_sent.res = "http"
           /\ request_sent.http_code < 400
           /\ ~Decoded)
             => ret = QKD_STATUS_BAD_REQUEST
       /\ request_sent.res = "failed" => ret # QKD_STATUS_BAD_REQUEST

\* C33: the status code carried in the server's OPEN_CONNECT, GET_KEY or
\* CLOSE response is the status the C caller receives, in the return value
\* and in *status.
C33_ServerStatusDelivered ==
    (/\ backend = PythonClient
     /\ call.op \in {"open_connect", "get_key", "close"}
     /\ ~faulted
     /\ call.served # -1)
    => (ret = call.served /\ status = call.served)

\* C38: GET_KEY and CLOSE return NO_CONNECTION whenever no client instance
\* is live (before the first successful OPEN_CONNECT and after a CLOSE has
\* ended the interpreter) and never use a released instance; an OPEN_CONNECT
\* whose initialisation succeeds leaves a live instance.
C38_Lifecycle ==
    [][/\ (/\ backend = PythonClient
           /\ call.op = "none"
           /\ call'.op \in {"get_key", "close"}
           /\ ~client.made)
          => (/\ ~faulted'
              /\ ~call'.released
              /\ ret' = QKD_STATUS_NO_CONNECTION
              /\ status' = QKD_STATUS_NO_CONNECTION)
       /\ (/\ backend = PythonClient
           /\ call.op = "none"
           /\ call'.op = "open_connect"
           /\ ret' \in {QKD_STATUS_SUCCESS, QKD_STATUS_QOS_NOT_MET})
          => (py_qkd_client_instance' /\ client'.made)]_vars

\* C34: a GET_KEY that returns a status other than SUCCESS leaves the
\* caller's key buffer unwritten and the last-served index of every session
\* unchanged.
C34_FailedGetKeyWritesNothing ==
    [][(/\ backend = Legacy
        /\ call.op = "none"
        /\ call'.op = "get_key"
        /\ ~faulted'
        /\ ret' # QKD_STATUS_SUCCESS)
       => (/\ key_buffer' = Unwritten
           /\ \A s \in Slots :
                 streams'[s].last_index = streams[s].last_index)]_vars

\* C35: admission is monotone. If GET_KEY with index i has been admitted on
\* a session, then at that time and at every later time until the slot is
\* freed, index i and every index j <= i are admitted.
C35_AdmissionMonotone ==
    (/\ streams.in_use
     /\ ~faulted)
    => \A i \in seen : \A j \in 0..i :
          can_generate_key_u64(streams.qos, elapsed_ms_u64(streams, now), j)

\* C36: for every QoS that OPEN_CONNECT lets into the table the divisor
\* 8000 * Key_chunk_size is not zero and does not wrap modulo 2^32, and
\* GET_KEY never divides by zero.
C36_DivisorWellDefined ==
    /\ ~faulted
    /\ streams.in_use
       => /\ ~IsZero(divisor_u32(streams.qos))
          /\ divisor_exact(streams.qos)
               = divisor_u32(streams.qos) \o <<0, 0, 0, 0>>

\* C37: in the key-store simulation the number of stored keys never exceeds
\* the capacity of the store, no key is written outside the store, and
\* GET_STATUS reports stored_key_count <= max_key_count.
C37_StoreWithinCapacity ==
    backend = VaultSim
    => /\ Len(key_store) <= MaxKeys
       /\ (call.op = "GET_STATUS" /\ ret = QKD_STATUS_OK)
          => kme_status.stored_key_count <= kme_status.max_key_count

\* C39: the dec_keys body built for GET_KEY_WITH_IDS holds one
\* {"key_ID": id} object per requested ID, in request order, and fits the
\* 1024-byte buffer with every entry in its own buffer: no ID is truncated
\* and nothing is written past the buffer.
C39_PostDataFits ==
    (backend = RestBackend /\ call.op = "build_post_data")
    => /\ ~faulted
       /\ request_sent.fits
       /\ request_sent.text = dec_keys_body(call.count, call.length)
====
